---- MODULE Spec2Model ----
(***************************************************************************)
(* Commerce_Place_2.0, city_insights_api: the inhabitants/commerces        *)
(* pipeline.  InseeCarroyageGenerator.generate (services/carroyage.py),    *)
(* KMeansEvaluator (services/metrics.py), PipelineService._build_zones and *)
(* _choose_k (services/pipeline.py) and MapBuilder._quantile               *)
(* (services/map_builder.py).                                              *)
(*                                                                         *)
(* Numbers.  Python floats are modelled by exact fixed-point integers:     *)
(* a population p is the integer p * PopUnit, degrees are integers.  The   *)
(* weighted means of _build_zones are floats of FloatBits significant      *)
(* bits, rounded after every operation.                                    *)
(* A CSV field is a record [kind, val]: kind "num" (a number), "nan" (an   *)
(* empty field, read as NaN) or "bad" (text that is not a number).         *)
(***************************************************************************)
EXTENDS Integers, Sequences, FiniteSets, TLC

VARIABLES
    csv_exists,        \* self.csv_path.exists()
    rows,              \* the rows of the INSEE CSV, fields X, Y, ind_c
    bbox,              \* the BoundingBox handed to generate
    pc,                \* position of the run
    error,             \* the exception that ended the run, or "none"
    dir_created,       \* output_path.parent was created by generate
    rows_read,         \* rows consumed by the chunk loop so far
    results,           \* generate's local list of cells
    total_population,  \* generate's local float accumulator (in 1/PopUnit)
    output_file,       \* content of output_path, NoFile before the dump
    payload,           \* the CarroyagePayload returned, None before return
    commerce_items,    \* data["items"], the competitor points of the request
    metrics,           \* what evaluate returned: None or a KMeansMetrics
    k,                 \* the k _build_zones chose, 0 before it chose
    fitted,            \* _build_zones fitted its KMeans model
    labels,            \* model.fit_predict(X): the cluster of each cell
    predicted,         \* model.predict(coords): the cluster of each parsed item
    raw_zones,         \* _build_zones' raw_zones after the sort
    zones,             \* the list of ZoneInsight returned
    call,              \* a call of a helper: its name and arguments
    ret,               \* what the call returned, NotCalled before
    scale,             \* MapBuilder.scale: "linear", "sqrt" or "log"
    heat_data,         \* _add_heatmap's heat_data, NoLayer when it drew nothing
    map_file,          \* content of the map's HTML file, NoFile before the save
    artifacts,         \* the PipelineArtifacts run_pipeline returned, None before
    run,               \* 1 in the first run of an operation, 2 when it is run again
    first_run,         \* what the first run produced, None during the first run
    fits,              \* KMeans(n_clusters, random_state).fit_predict results so far
    scored,            \* what the two scorers did for each candidate k of evaluate
    invs,              \* the run_pipeline invocations under way on the shared service
    files,             \* the files of data_dir and views_dir: path -> content
    collection,        \* the Mongo collection of chat sessions, a document per id
    reqs,              \* the POST /chat requests under way, each with its locals
    turn               \* the locals of one CityInsightsAgent.run, None outside it

\* the state of generate
genVars == <<csv_exists, rows, bbox, dir_created, rows_read, results,
             total_population, output_file, payload>>
\* the state of evaluate and _build_zones
zoneVars == <<commerce_items, metrics, k, fitted, labels, predicted, raw_zones, zones>>
\* the state of a helper call
fnVars == <<call, ret>>

\* the state of MapBuilder.build and the end of run_pipeline
mapVars == <<scale, heat_data, map_file, artifacts>>
\* the state of a repeated run and of the KMeans fits done so far
runVars == <<run, first_run, fits, scored>>

\* the state shared by concurrent requests, and the conversation turn
svcVars == <<invs, files, collection, reqs, turn>>

vars == <<pc, error, genVars, zoneVars, fnVars, mapVars, runVars, svcVars>>

-----------------------------------------------------------------------------
(* Bounds of the model *)

\* longest CSV, in rows
MaxRows == 2
\* rows per chunk of pd.read_csv (chunk_size of the generator)
ChunkSize == 1
\* X and Y of a row are 0..MaxCoord (file units)
MaxCoord == 1
\* a numeric ind_c is 0..MaxPop, in units of 1/PopUnit inhabitant
MaxPop == 2
\* fixed-point resolution of a population
PopUnit == 4
\* most cells handed to evaluate and _build_zones
MaxCells == 4
\* most commerce items of a request
MaxItems == 2
\* most cells when the commerce items vary
MaxCommerceCells == 3
\* a score computed by evaluate is 1..MaxFitScore, or NaN
MaxFitScore == 1
\* a score handed to _choose_k is 1..MaxScore, NaN or None
MaxScore == 2
\* most candidates k of the metrics handed to _choose_k
MaxCand == 2
\* _choose_k is called with cell_count 0..MaxHeurCells
MaxHeurCells == 151
\* suggest_k_range and evaluate are called with cell_count 0..MaxCellCount
MaxCellCount == 610
\* an explicit k_min or k_max is 0..MaxKArg
MaxKArg == 5
\* longest list handed to _quantile
MaxQLen == 4
\* the values handed to _quantile are 0..MaxQVal
MaxQVal == 3
\* q is a multiple of 1/QDen in [0, 1]
QDen == 20
\* rows of the CSV in a run of the whole pipeline
MaxPipeRows == 3
\* cells handed to the map builder
MaxRenderCells == 3
\* population of a cell handed to the map builder, in 1/PopUnit
MaxRenderPop == 4
\* transformed populations are multiples of 1/TScale
TScale == 1000

-----------------------------------------------------------------------------
(* Values *)

None == [none |-> TRUE]
NoFile == [nofile |-> TRUE]
\* _add_heatmap returned at line 54: no HeatMap layer, no legend
NoLayer == [drawn |-> FALSE, data |-> <<>>]

Num(v) == [kind |-> "num", val |-> v]
NaNField == [kind |-> "nan", val |-> 0]
BadField == [kind |-> "bad", val |-> 0]

Min(a, b) == IF a <= b THEN a ELSE b
Max(a, b) == IF a >= b THEN a ELSE b

RECURSIVE SumSeq(_)
SumSeq(s) == IF s = <<>> THEN 0 ELSE Head(s) + SumSeq(Tail(s))

SeqsUpTo(S, n) == UNION {[1..m -> S] : m \in 0..n}

CoordFields == {Num(v) : v \in 0..MaxCoord}
PopFields == {Num(v) : v \in 0..MaxPop} \cup {NaNField}

\* rows whose fields all parse (ind_c may be empty)
GoodRows == [X : CoordFields, Y : CoordFields, ind_c : PopFields]

\* rows with one field that is not a number
MalformedRows ==
    {[X |-> BadField, Y |-> Num(0), ind_c |-> Num(1)],
     [X |-> Num(0), Y |-> BadField, ind_c |-> Num(1)],
     [X |-> Num(0), Y |-> Num(0), ind_c |-> BadField]}

RowVals == GoodRows \cup MalformedRows

\* bounding boxes, degenerate and inverted ones included (BoundingBox
\* validates nothing)
BBoxEdges == {0, 1}
BBoxVals == [south : BBoxEdges, west : BBoxEdges, north : BBoxEdges, east : BBoxEdges]

-----------------------------------------------------------------------------
(* services/carroyage.py *)

\* x = chunk[COL_X].astype(float) * 100.0
ScaleXY == 100

\* Transformer.from_crs("EPSG:3035", "EPSG:4326", always_xy=True).transform:
\* metres of the projected frame to degrees, as (lon, lat).  The model's
\* projection has 100 m per degree.
Reproject(x, y) == [lon |-> x \div 100, lat |-> y \div 100]

\* lat/lon columns added to a row of a chunk (lines 48-53)
WithLatLon(row) ==
    LET p == Reproject(row.X.val * ScaleXY, row.Y.val * ScaleXY)
    IN  [lat |-> p.lat, lon |-> p.lon, ind_c |-> row.ind_c]

\* chunk[COL_POP].fillna(0)
FillNa(f) == IF f.kind = "nan" THEN 0 ELSE f.val

\* the mask with the east edge excluded
MaskEastOpen(r, b) ==
    /\ r.lat >= b.south
    /\ r.lat <= b.north
    /\ r.lon >= b.west
    /\ r.lon < b.east
    /\ FillNa(r.ind_c) > 0

\* the boolean mask of lines 55-61, for one row
Mask(r, b) ==
    /\ r.lat >= b.south
    /\ r.lat <= b.north
    /\ r.lon >= b.west
    /\ r.lon <= b.east
    /\ FillNa(r.ind_c) > 0

\* the cell appended for a row of sub (lines 65-71)
CellOf(r) == [lat |-> r.lat, lon |-> r.lon, pop |-> r.ind_c.val]

\* the cells a chunk contributes: sub = chunk.loc[mask, ...], then the loop
ChunkCells(chunk, b) ==
    LET located == [i \in 1..Len(chunk) |-> WithLatLon(chunk[i])]
        Keep(r) == Mask(r, b)
        sub == SelectSeq(located, Keep)
    IN  [i \in 1..Len(sub) |-> CellOf(sub[i])]

PopOf(c) == c.pop

\* the pop values of a list of cells, added up
SumPop(cells) == SumSeq([i \in 1..Len(cells) |-> PopOf(cells[i])])

\* int(x): the fraction dropped instead of rounded
RoundPopTruncated(x) == x \div PopUnit

\* int(round(x)) for x >= 0 given in 1/PopUnit: Python rounds half to even
RoundPop(x) ==
    LET q == x \div PopUnit
        r == x % PopUnit
    IN  IF 2 * r < PopUnit THEN q
        ELSE IF 2 * r > PopUnit THEN q + 1
        ELSE IF q % 2 = 0 THEN q ELSE q + 1

\* the dict dumped to output_path (lines 74-82)
PayloadDict(b, cells, total) ==
    [bbox |-> b,
     count_cells |-> Len(cells),
     total_population |-> RoundPop(total),
     cells |-> cells]

\* the CarroyagePayload returned (lines 87-94)
CarroyagePayload(b, cells, total) ==
    [bbox |-> b,
     cells |-> cells,
     count_cells |-> Len(cells),
     total_population |-> RoundPop(total),
     data |-> PayloadDict(b, cells, total)]

\* the next chunk pd.read_csv yields
NextChunk == SubSeq(rows, rows_read + 1, Min(rows_read + ChunkSize, Len(rows)))

\* astype(float) on a column holding text raises ValueError (lines 48-49)
BadCoords(chunk) == \E i \in 1..Len(chunk) : chunk[i].X.kind = "bad" \/ chunk[i].Y.kind = "bad"

\* comparing a column holding text with 0 raises TypeError (line 60)
BadPop(chunk) == \E i \in 1..Len(chunk) : chunk[i].ind_c.kind = "bad"

\* generate creating the output directory before it looks for the CSV
GenerateNoCsvAfterMkdir ==
    /\ pc = "generate"
    /\ ~csv_exists
    /\ dir_created' = TRUE
    /\ pc' = "raised"
    /\ error' = "FileNotFoundError"
    /\ UNCHANGED <<csv_exists, rows, bbox, rows_read, results, total_population,
                   output_file, payload, zoneVars, fnVars, mapVars, runVars, svcVars>>

\* lines 39-40: the CSV is missing
GenerateNoCsv ==
    /\ pc = "generate"
    /\ ~csv_exists
    /\ pc' = "raised"
    /\ error' = "FileNotFoundError"
    /\ UNCHANGED <<genVars, zoneVars, fnVars, mapVars, runVars, svcVars>>

\* generate starting from accumulators that are not emptied
GenerateOpenKeeping ==
    /\ pc = "generate"
    /\ csv_exists
    /\ dir_created' = TRUE
    /\ rows_read' = 0
    /\ pc' = "chunks"
    /\ UNCHANGED <<csv_exists, rows, bbox, error, results, total_population,
                   output_file, payload, zoneVars, fnVars, mapVars, runVars, svcVars>>

\* lines 39-45: the CSV exists; mkdir, empty accumulators
GenerateOpen ==
    /\ pc = "generate"
    /\ csv_exists
    /\ dir_created' = TRUE
    /\ results' = <<>>
    /\ total_population' = 0
    /\ rows_read' = 0
    /\ pc' = "chunks"
    /\ UNCHANGED <<csv_exists, rows, bbox, error, output_file, payload, zoneVars, fnVars, mapVars, runVars, svcVars>>

\* lines 47-72: one iteration of the chunk loop
GenerateChunk ==
    /\ pc = "chunks"
    /\ rows_read < Len(rows)
    /\ ~BadCoords(NextChunk)
    /\ ~BadPop(NextChunk)
    /\ LET cells == ChunkCells(NextChunk, bbox)
       IN  /\ results' = results \o cells
           /\ total_population' = total_population + SumPop(cells)
    /\ rows_read' = rows_read + Len(NextChunk)
    /\ UNCHANGED <<csv_exists, rows, bbox, pc, error, dir_created, output_file, payload,
                   zoneVars, fnVars, mapVars, runVars, svcVars>>

\* lines 48-49: a chunk whose X or Y column holds text
GenerateChunkBadCoords ==
    /\ pc = "chunks"
    /\ rows_read < Len(rows)
    /\ BadCoords(NextChunk)
    /\ pc' = "raised"
    /\ error' = "ValueError"
    /\ UNCHANGED <<genVars, zoneVars, fnVars, mapVars, runVars, svcVars>>

\* line 60: a chunk whose ind_c column holds text
GenerateChunkBadPop ==
    /\ pc = "chunks"
    /\ rows_read < Len(rows)
    /\ ~BadCoords(NextChunk)
    /\ BadPop(NextChunk)
    /\ pc' = "raised"
    /\ error' = "TypeError"
    /\ UNCHANGED <<genVars, zoneVars, fnVars, mapVars, runVars, svcVars>>

\* lines 74-94: the loop is over; dump the JSON, return the payload
GenerateWrite ==
    /\ pc = "chunks"
    /\ rows_read = Len(rows)
    /\ output_file' = PayloadDict(bbox, results, total_population)
    /\ payload' = CarroyagePayload(bbox, results, total_population)
    /\ pc' = "generated"
    /\ UNCHANGED <<csv_exists, rows, bbox, error, dir_created, rows_read, results,
                   total_population, zoneVars, fnVars, mapVars, runVars, svcVars>>

-----------------------------------------------------------------------------
(* services/metrics.py *)

\* an optional int argument: left at its default None, or given
NoArg == [none |-> TRUE, val |-> 0]
Arg(v) == [none |-> FALSE, val |-> v]

\* KMeansEvaluator.__init__: default_k_min, default_k_max
default_k_min == 2
default_k_max == 10

\* _adaptive_range (lines 96-107)
AdaptiveRange(cell_count) ==
    IF cell_count < 20 THEN <<2, 4>>
    ELSE IF cell_count < 60 THEN <<3, 6>>
    ELSE IF cell_count < 150 THEN <<4, 8>>
    ELSE IF cell_count < 300 THEN <<5, 10>>
    ELSE IF cell_count < 600 THEN <<6, 12>>
    ELSE <<8, 15>>

\* suggest_k_range with the clamp to cell_count - 2
SuggestKRangeTight(cell_count, k_min, k_max) ==
    LET first == IF k_min.none /\ k_max.none
                 THEN AdaptiveRange(cell_count)
                 ELSE <<IF ~k_min.none THEN k_min.val ELSE default_k_min,
                        IF ~k_max.none THEN k_max.val ELSE default_k_max>>
        max_allowed == Max(2, cell_count - 2)
        min_k == Max(2, Min(first[1], max_allowed))
        max_k == Max(min_k, Min(first[2], max_allowed))
    IN  IF max_k <= min_k /\ max_allowed > min_k
        THEN <<min_k, Min(max_allowed, min_k + 1)>>
        ELSE <<min_k, max_k>>

\* suggest_k_range without the widening of lines 38-39
SuggestKRangeNoWiden(cell_count, k_min, k_max) ==
    LET first == IF k_min.none /\ k_max.none
                 THEN AdaptiveRange(cell_count)
                 ELSE <<IF ~k_min.none THEN k_min.val ELSE default_k_min,
                        IF ~k_max.none THEN k_max.val ELSE default_k_max>>
        max_allowed == Max(2, cell_count - 1)
        min_k == Max(2, Min(first[1], max_allowed))
        max_k == Max(min_k, Min(first[2], max_allowed))
    IN  <<min_k, max_k>>

\* suggest_k_range (lines 19-41): <<min_k, max_k>>
SuggestKRange(cell_count, k_min, k_max) ==
    LET first == IF k_min.none /\ k_max.none
                 THEN AdaptiveRange(cell_count)
                 ELSE <<IF ~k_min.none THEN k_min.val ELSE default_k_min,
                        IF ~k_max.none THEN k_max.val ELSE default_k_max>>
        max_allowed == Max(2, cell_count - 1)
        min_k == Max(2, Min(first[1], max_allowed))
        max_k == Max(min_k, Min(first[2], max_allowed))
    IN  IF max_k <= min_k /\ max_allowed > min_k
        THEN <<min_k, Min(max_allowed, min_k + 1)>>
        ELSE <<min_k, max_k>>

\* the candidates with k < count - 1
KValuesBelowTight(k_min, k_max, count) ==
    LET top == Min(k_max, count - 2)
    IN  IF top < k_min THEN <<>> ELSE [i \in 1..(top - k_min + 1) |-> k_min + i - 1]

\* [k for k in range(k_min, k_max + 1) if k < count]
KValuesBelow(k_min, k_max, count) ==
    LET top == Min(k_max, count - 1)
    IN  IF top < k_min THEN <<>> ELSE [i \in 1..(top - k_min + 1) |-> k_min + i - 1]

\* evaluate (lines 50-62): the k_values the loop will fit; <<>> when
\* evaluate returns None (no cells, count <= k_min, or no k below count)
EvaluateKValues(count, k_min, k_max) ==
    IF count = 0 THEN <<>>
    ELSE LET r == SuggestKRange(count, k_min, k_max)
         IN  IF count <= r[1] THEN <<>> ELSE KValuesBelow(r[1], r[2], count)

\* a score: a number, float("nan"), or None
NaN == [kind |-> "nan", val |-> 0]
NoneScore == [kind |-> "none", val |-> 0]

\* float(silhouette_score(X, labels)), float(davies_bouldin_score(X, labels)),
\* or float("nan") after ValueError (lines 78-86): any outcome
ScoreOutcomes == {Num(v) : v \in 1..MaxFitScore} \cup {NaN}

\* the KMeansMetrics returned (lines 89-94); the value of the cost
\* model.inertia_ is read by nothing and is kept as 0
KMeansMetrics(k_values, silhouettes, davies_scores) ==
    [k_values |-> k_values,
     inertia |-> [i \in 1..Len(k_values) |-> Num(0)],
     silhouette |-> silhouettes,
     davies_bouldin |-> davies_scores]

\* random_state of the KMeans models evaluate fits (line 75)
EvaluateSeed == 42

\* KMeans(n_clusters=kk, n_init="auto", random_state=seed) fitted on
\* X = column_stack([lons, lats]) with sample_weight=pops when weighted
FitKey(kk, seed, weighted) == [k |-> kk, seed |-> seed, weighted |-> weighted]

\* model.fit_predict(X, sample_weight=pops) on n cells and model.predict on
\* m points. The library's result is a function of the model's parameters
\* and of the data: the first fit with a key may give any assignment to
\* 0..k-1, a later fit with the same key on the same data gives the same
KMeansFits(key, n, m) ==
    IF \E f \in fits : f.key = key
    THEN {f \in fits : f.key = key}
    ELSE [key : {key}, labels : [1..n -> 0..(key.k - 1)],
          predicted : [1..m -> 0..(key.k - 1)]]

\* silhouette_score, davies_bouldin_score: a float, or ValueError raised
ScorerRaised == [kind |-> "ValueError", val |-> 0]
ScorerOutcomes == {Num(v) : v \in 1..MaxFitScore} \cup {ScorerRaised}

\* a handler appending 0.0 where lines 82 and 87 append nan
RecordedZero(outcome) == IF outcome.kind = "ValueError" THEN Num(0) ELSE outcome

\* lines 79-87: try: append(float(score)) except ValueError: append(nan)
Recorded(outcome) == IF outcome.kind = "ValueError" THEN NaN ELSE outcome

\* the loop of lines 74-87 over the candidates ks: the lists of fits it can do
RECURSIVE FitSeqs(_, _, _)
FitSeqs(ks, n, m) ==
    IF ks = <<>> THEN {<<>>}
    ELSE {<<f>> \o rest :
            f \in KMeansFits(FitKey(Head(ks), EvaluateSeed, TRUE), n, m),
            rest \in FitSeqs(Tail(ks), n, m)}

\* metrics = self.evaluator.evaluate(carroyage_payload.cells): too few cells
EvaluateNone ==
    /\ pc = "generated"
    /\ EvaluateKValues(Len(payload.cells), NoArg, NoArg) = <<>>
    /\ metrics' = None
    /\ pc' = "evaluated"
    /\ UNCHANGED <<error, genVars, commerce_items, k, fitted, labels, predicted,
                   raw_zones, zones, fnVars, mapVars, runVars, svcVars>>

\* metrics = self.evaluator.evaluate(carroyage_payload.cells): one fit and
\* two scores per candidate k
EvaluateCandidates ==
    /\ pc = "generated"
    /\ EvaluateKValues(Len(payload.cells), NoArg, NoArg) # <<>>
    /\ LET k_values == EvaluateKValues(Len(payload.cells), NoArg, NoArg)
       IN  \E silhouettes \in [1..Len(k_values) -> ScoreOutcomes],
              davies_scores \in [1..Len(k_values) -> ScoreOutcomes] :
              metrics' = KMeansMetrics(k_values, silhouettes, davies_scores)
    /\ pc' = "evaluated"
    /\ UNCHANGED <<error, genVars, commerce_items, k, fitted, labels, predicted,
                   raw_zones, zones, fnVars, mapVars, runVars, svcVars>>

-----------------------------------------------------------------------------
(* services/pipeline.py: _choose_k *)

\* score is None or (isinstance(score, float) and np.isnan(score))
Undefined(score) == score.kind # "num"

\* best_score before the loop: -inf (line 217) or +inf (line 229)
Infinity == [kind |-> "inf", val |-> 0]
Greater(a, b) == a > b
Less(a, b) == a < b
Better(higher, a, b) == IF higher THEN Greater(a, b) ELSE Less(a, b)

RECURSIVE BestIdx(_, _, _, _, _)
\* the loops of lines 218-223 and 230-235 from index idx on: best_idx, 0 for
\* None; best is the best score so far, a record of kind "inf" at the start
\* higher: the silhouette loop (score > best_score); else the Davies-Bouldin
\* loop (score < best_score)
BestIdx(scores, higher, idx, best_idx, best) ==
    IF idx > Len(scores) THEN best_idx
    ELSE IF Undefined(scores[idx]) THEN BestIdx(scores, higher, idx + 1, best_idx, best)
    ELSE IF best.kind = "inf" \/ Better(higher, scores[idx].val, best.val)
         THEN BestIdx(scores, higher, idx + 1, idx, scores[idx])
         ELSE BestIdx(scores, higher, idx + 1, best_idx, best)

\* lines 239-245
SizeHeuristic(cell_count) ==
    IF cell_count <= 5 THEN 2
    ELSE IF cell_count <= 50 THEN 3
    ELSE IF cell_count <= 150 THEN 4
    ELSE 5

\* _choose_k looking at davies_bouldin before silhouette
ChooseKDaviesFirst(m, cell_count) ==
    IF m # None /\ m.k_values # <<>>
    THEN LET by_db == BestIdx(m.davies_bouldin, FALSE, 1, 0, Infinity)
             by_sil == BestIdx(m.silhouette, TRUE, 1, 0, Infinity)
         IN  IF by_db # 0 THEN m.k_values[by_db]
             ELSE IF by_sil # 0 THEN m.k_values[by_sil]
             ELSE SizeHeuristic(cell_count)
    ELSE SizeHeuristic(cell_count)

\* _choose_k (lines 213-245)
ChooseK(m, cell_count) ==
    IF m # None /\ m.k_values # <<>>
    THEN LET by_sil == BestIdx(m.silhouette, TRUE, 1, 0, Infinity)
             by_db == BestIdx(m.davies_bouldin, FALSE, 1, 0, Infinity)
         IN  IF by_sil # 0 THEN m.k_values[by_sil]
             ELSE IF by_db # 0 THEN m.k_values[by_db]
             ELSE SizeHeuristic(cell_count)
    ELSE SizeHeuristic(cell_count)

-----------------------------------------------------------------------------
(* services/map_builder.py: _quantile *)

\* a float as the fraction num/QDen
Frac(num) == [num |-> num, den |-> QDen]

\* _quantile with the two interpolation weights exchanged
QuantileSwapped(values, qn) ==
    IF values = <<>> THEN Frac(0)
    ELSE IF qn <= 0 THEN Frac(values[1] * QDen)
    ELSE IF qn >= QDen THEN Frac(values[Len(values)] * QDen)
    ELSE LET n == Len(values)
             pos == (n - 1) * qn
             lo == pos \div QDen
             hi == IF pos % QDen = 0 THEN lo ELSE lo + 1
             weight == pos - lo * QDen
         IN  IF lo = hi THEN Frac(values[lo + 1] * QDen)
             ELSE Frac(values[lo + 1] * weight + values[hi + 1] * (QDen - weight))

\* _quantile(values, q) (lines 199-214) for q = qn/QDen; pos and weight are
\* kept in units of 1/QDen, the list index is Python's plus one
Quantile(values, qn) ==
    IF values = <<>> THEN Frac(0)
    ELSE IF qn <= 0 THEN Frac(values[1] * QDen)
    ELSE IF qn >= QDen THEN Frac(values[Len(values)] * QDen)
    ELSE LET n == Len(values)
             pos == (n - 1) * qn
             lo == pos \div QDen
             hi == IF pos % QDen = 0 THEN lo ELSE lo + 1
             weight == pos - lo * QDen
         IN  IF lo = hi THEN Frac(values[lo + 1] * QDen)
             ELSE Frac(values[lo + 1] * (QDen - weight) + values[hi + 1] * weight)

-----------------------------------------------------------------------------
(* services/map_builder.py: _add_heatmap *)

\* the scales _transform_pop knows; anything but "linear" and "sqrt" is log1p
Scales == {"linear", "sqrt", "log"}

RECURSIVE ISqrtIn(_, _, _)
\* the largest r in lo..hi with r * r <= v
ISqrtIn(v, lo, hi) ==
    IF lo >= hi THEN lo
    ELSE LET mid == (lo + hi + 1) \div 2
         IN  IF mid * mid <= v THEN ISqrtIn(v, mid, hi) ELSE ISqrtIn(v, lo, mid - 1)

\* pop ** 0.5 in units of 1/TScale, for pop = n/d
SqrtFix(n, d) ==
    LET v == (n * TScale * TScale) \div d IN ISqrtIn(v, 0, TScale * (n \div d + 1))

\* math.log1p(pop) in units of 1/TScale, for pop = n/d: 2 atanh(z) with
\* z = pop / (2 + pop), by its series up to z^5
Log1pFix(n, d) ==
    LET z == (n * TScale) \div (2 * d + n)
        z3 == (z * z * z) \div (TScale * TScale)
        z5 == (z3 * z * z) \div (TScale * TScale)
    IN  2 * (z + z3 \div 3 + z5 \div 5)

\* _transform_pop (lines 191-197) of pop = n/d, in units of 1/TScale
TransformPop(sc, n, d) ==
    LET pop == Max(0, n)
    IN  IF sc = "linear" THEN (pop * TScale) \div d
        ELSE IF sc = "sqrt" THEN SqrtFix(pop, d)
        ELSE Log1pFix(pop, d)

\* _clamp (lines 216-217)
Clamp(value, lo, hi) == Max(lo, Min(hi, value))

\* the value at place i of sorted(s): fewer than i elements are below it and
\* at least i are not above it
SortedAt(s, i) ==
    CHOOSE v \in {s[j] : j \in 1..Len(s)} :
        /\ Cardinality({j \in 1..Len(s) : s[j] < v}) < i
        /\ Cardinality({j \in 1..Len(s) : s[j] <= v}) >= i

\* sorted(pops)
Sorted(s) == [i \in 1..Len(s) |-> SortedAt(s, i)]

\* the quantiles 0.05 and 0.95 of lines 64-65, in units of 1/QDen
LoQ == QDen \div 20
HiQ == QDen - QDen \div 20

\* lines 64-68 with denom = hi_t - lo_t, whatever the difference
HeatRangeUnguarded(sc, pops) ==
    LET pops_sorted == Sorted(pops)
        lo_raw == Quantile(pops_sorted, LoQ)
        hi_raw == Quantile(pops_sorted, HiQ)
        lo_t == TransformPop(sc, lo_raw.num, lo_raw.den * PopUnit)
        hi_t == TransformPop(sc, hi_raw.num, hi_raw.den * PopUnit)
    IN  [lo_t |-> lo_t, denom |-> hi_t - lo_t]

\* lo_t, hi_t and denom (lines 64-68) for the pops of the cells, each pop in
\* units of 1/PopUnit; 1e-12 is below the resolution 1/TScale, 1.0 is TScale
HeatRange(sc, pops) ==
    LET pops_sorted == Sorted(pops)
        lo_raw == Quantile(pops_sorted, LoQ)
        hi_raw == Quantile(pops_sorted, HiQ)
        lo_t == TransformPop(sc, lo_raw.num, lo_raw.den * PopUnit)
        hi_t == TransformPop(sc, hi_raw.num, hi_raw.den * PopUnit)
    IN  [lo_t |-> lo_t,
         denom |-> IF hi_t - lo_t > 0 THEN hi_t - lo_t ELSE TScale]

\* weight without the floor of 0.03
WeightUnfloored(sc, range, pop_raw) ==
    LET value == TransformPop(sc, pop_raw, PopUnit)
        w01 == Clamp(value - range.lo_t, 0, range.denom)
    IN  [num |-> 100 * w01, den |-> 100 * range.denom]

\* weight(pop_raw) (lines 70-74) as the fraction num/den; w01 is kept as
\* its numerator over denom
Weight(sc, range, pop_raw) ==
    LET value == TransformPop(sc, pop_raw, PopUnit)
        w01 == Clamp(value - range.lo_t, 0, range.denom)
    IN  IF 100 * w01 < 3 * range.denom
        THEN [num |-> 3 * range.denom, den |-> 100 * range.denom]
        ELSE [num |-> 100 * w01, den |-> 100 * range.denom]

\* _add_heatmap without the early return of lines 53-54
HeatDataUnguarded(sc, cells) ==
    LET pops == [i \in 1..Len(cells) |-> cells[i].pop]
        range == HeatRange(sc, pops)
    IN  [drawn |-> TRUE,
         data |-> [i \in 1..Len(cells) |->
                     [lat |-> cells[i].lat, lon |-> cells[i].lon,
                      weight |-> Weight(sc, range, cells[i].pop)]]]

\* _add_heatmap (lines 51-80): heat_data, NoLayer when there is no cell
HeatData(sc, cells) ==
    IF cells = <<>> THEN NoLayer
    ELSE LET pops == [i \in 1..Len(cells) |-> cells[i].pop]
             range == HeatRange(sc, pops)
         IN  [drawn |-> TRUE,
              data |-> [i \in 1..Len(cells) |->
                          [lat |-> cells[i].lat, lon |-> cells[i].lon,
                           weight |-> Weight(sc, range, cells[i].pop)]]]

-----------------------------------------------------------------------------
(* services/pipeline.py: _build_zones *)

\* a field of a commerce item: a number, a key that is missing (KeyError), or
\* a value float() rejects (TypeError, ValueError)
MissingField == [kind |-> "missing", val |-> 0]

\* float(item["lon"]), float(item["lat"]) succeed
Parses(item) == item.lon.kind = "num" /\ item.lat.kind = "num"

\* commerce_coords (lines 153-158): the items that parse, in order
CommerceCoords(items) ==
    LET coord(item) == [lon |-> item.lon.val, lat |-> item.lat.val]
        kept == SelectSeq(items, Parses)
    IN  [i \in 1..Len(kept) |-> coord(kept[i])]

\* commerce_counts (lines 160-165): predictions per cluster index 0..k-1
CommerceCounts(kk, pred) ==
    [idx \in 0..(kk - 1) |-> Cardinality({j \in 1..Len(pred) : pred[j] = idx})]

\* the indices of the cells of cluster idx: mask = labels == idx
MaskOf(lab, idx) == {i \in 1..Len(lab) : lab[i] = idx}

RECURSIVE SumOver(_, _)
\* the sum of f[i] over the finite set S of indices
SumOver(f, S) ==
    IF S = {} THEN 0
    ELSE LET i == CHOOSE j \in S : TRUE IN f[i] + SumOver(f, S \ {i})

MinOf(S) == CHOOSE x \in S : \A y \in S : x <= y
MaxOf(S) == CHOOSE x \in S : \A y \in S : x >= y

\* numpy's float64 arithmetic, with FloatBits significant bits in place of
\* 53: a float is the fraction [num, den], den a power of 2, and every
\* operation rounds its exact result to the nearest float, ties to even
FloatBits == 4

Float(v) == [num |-> v, den |-> 1]

RECURSIVE Dyadic(_, _)
\* the fraction num/den, den a power of 2, in lowest terms
Dyadic(num, den) ==
    IF den > 1 /\ num % 2 = 0 THEN Dyadic(num \div 2, den \div 2)
    ELSE [num |-> num, den |-> den]

RECURSIVE FloatScaled(_, _, _)
\* n/d = (nn/dd) * 2^e with 2^(FloatBits-1) <= nn/dd < 2^FloatBits
FloatScaled(n, d, e) ==
    IF n >= 2^FloatBits * d THEN FloatScaled(n, 2 * d, e + 1)
    ELSE IF n < 2^(FloatBits - 1) * d THEN FloatScaled(2 * n, d, e - 1)
    ELSE [nn |-> n, dd |-> d, e |-> e]

\* the integer nearest to nn/dd, the even one of two equally near
RoundHalfEven(nn, dd) ==
    LET q == nn \div dd
        r == nn % dd
    IN  IF 2 * r < dd THEN q
        ELSE IF 2 * r > dd THEN q + 1
        ELSE IF q % 2 = 0 THEN q ELSE q + 1

\* the float m * 2^e
FloatOf(m, e) == IF e >= 0 THEN Float(m * 2^e) ELSE Dyadic(m, 2^(0 - e))

\* the scaled value rounded to a float
FloatNearest(sc) == FloatOf(RoundHalfEven(sc.nn, sc.dd), sc.e)

\* n/d (n >= 0, d > 0) rounded to FloatBits significant bits; an integer
\* below 2^FloatBits is a float as it is.  (n and d are taken from
\* singleton sets so that each is computed once.)
FloatRound(n, d) ==
    LET Rounded(nv, dv) ==
            IF nv % dv = 0 /\ nv \div dv < 2^FloatBits THEN Float(nv \div dv)
            ELSE FloatNearest(FloatScaled(nv, dv, 0))
    IN  CHOOSE r \in {Rounded(nv, dv) : nv \in {n}, dv \in {d}} : TRUE

FloatAdd(a, b) == FloatRound(a.num * b.den + b.num * a.den, a.den * b.den)
FloatMul(a, b) == FloatRound(a.num * b.num, a.den * b.den)
FloatDiv(a, b) == FloatRound(a.num * b.den, a.den * b.num)
FloatLeq(a, b) == a.num * b.den <= b.num * a.den

RECURSIVE FloatSum(_, _, _)
\* ndarray.sum() of the entries f[i], i in S, added in index order to acc
FloatSum(f, S, acc) ==
    IF S = {} THEN acc
    ELSE LET i == CHOOSE j \in S : \A y \in S : j <= y
         IN  CHOOSE r \in {FloatSum(f, rest, sum) :
                             rest \in {S \ {i}}, sum \in {FloatAdd(acc, f[i])}} : TRUE

\* np.average(a[mask], weights=w[mask]): multiply(a, w).sum() / w.sum()
Average(a, w, mask) ==
    FloatDiv(FloatSum([i \in DOMAIN a |-> FloatMul(Float(a[i]), Float(w[i]))], mask, Float(0)),
             FloatSum([i \in DOMAIN w |-> Float(w[i])], mask, Float(0)))

\* a raw zone whose population is the number of its cells
RawZoneUnweighted(idx, cells, lab) ==
    LET mask == MaskOf(lab, idx)
        total_pop == Cardinality(mask)
    IN  [cluster |-> idx,
         lat |-> [num |-> SumOver([i \in 1..Len(cells) |-> cells[i].lat], mask),
                  den |-> total_pop],
         lon |-> [num |-> SumOver([i \in 1..Len(cells) |-> cells[i].lon], mask),
                  den |-> total_pop],
         population |-> total_pop,
         bounds |-> [south |-> MinOf({cells[i].lat : i \in mask}),
                     north |-> MaxOf({cells[i].lat : i \in mask}),
                     west |-> MinOf({cells[i].lon : i \in mask}),
                     east |-> MaxOf({cells[i].lon : i \in mask})]]

\* the raw zone of cluster idx (lines 172-193); the weighted means
\* lat_center and lon_center are floats, fractions num/den
RawZone(idx, cells, lab) ==
    LET mask == MaskOf(lab, idx)
        lats == [i \in 1..Len(cells) |-> cells[i].lat]
        lons == [i \in 1..Len(cells) |-> cells[i].lon]
        pops == [i \in 1..Len(cells) |-> cells[i].pop]
        total_pop == SumOver(pops, mask)
    IN  [cluster |-> idx,
         lat |-> Average(lats, pops, mask),
         lon |-> Average(lons, pops, mask),
         population |-> total_pop,
         bounds |-> [south |-> MinOf({cells[i].lat : i \in mask}),
                     north |-> MaxOf({cells[i].lat : i \in mask}),
                     west |-> MinOf({cells[i].lon : i \in mask}),
                     east |-> MaxOf({cells[i].lon : i \in mask})]]

RECURSIVE RawZones(_, _, _, _)
\* the loop of lines 167-193 from cluster idx on: empty clusters are skipped
RawZones(idx, kk, cells, lab) ==
    IF idx >= kk THEN <<>>
    ELSE (IF MaskOf(lab, idx) = {} THEN <<>> ELSE <<RawZone(idx, cells, lab)>>)
         \o RawZones(idx + 1, kk, cells, lab)

\* z put ahead of the zones of its own population: a sort that is not stable
InsertDescBeforeTies(s, z) ==
    LET ahead == Cardinality({i \in 1..Len(s) : s[i].population > z.population})
    IN  SubSeq(s, 1, ahead) \o <<z>> \o SubSeq(s, ahead + 1, Len(s))

\* z put into the sorted list s behind every zone at least as populated
InsertDesc(s, z) ==
    LET ahead == Cardinality({i \in 1..Len(s) : s[i].population >= z.population})
    IN  SubSeq(s, 1, ahead) \o <<z>> \o SubSeq(s, ahead + 1, Len(s))

\* the list left in cluster order
Unsorted(s) == s

RECURSIVE SortDesc(_)
\* raw_zones.sort(key=population, reverse=True) (line 195): stable
SortDesc(s) ==
    IF s = <<>> THEN <<>>
    ELSE InsertDesc(SortDesc(SubSeq(s, 1, Len(s) - 1)), s[Len(s)])

\* existing_commerces looked up by the zone's rank instead of its cluster
ZoneInsightsByRank(sorted, counts) ==
    [position \in 1..Len(sorted) |->
        [zone_id |-> position,
         lat |-> sorted[position].lat,
         lon |-> sorted[position].lon,
         population |-> sorted[position].population,
         existing_commerces |-> IF (position - 1) \in DOMAIN counts
                                THEN counts[position - 1] ELSE 0,
         bounds |-> sorted[position].bounds]]

\* the ZoneInsight list (lines 197-209)
ZoneInsights(sorted, counts) ==
    [position \in 1..Len(sorted) |->
        [zone_id |-> position,
         lat |-> sorted[position].lat,
         lon |-> sorted[position].lon,
         population |-> sorted[position].population,
         existing_commerces |-> IF sorted[position].cluster \in DOMAIN counts
                                THEN counts[sorted[position].cluster] ELSE 0,
         bounds |-> sorted[position].bounds]]

\* line 142: if k < 2 or len(cells) < k
Degenerate(kk, count) == kk < 2 \/ count < kk

\* lines 138-139: no cells
BuildZonesNoCells ==
    /\ pc = "evaluated"
    /\ payload.cells = <<>>
    /\ zones' = <<>>
    /\ pc' = "zoned"
    /\ UNCHANGED <<error, genVars, commerce_items, metrics, k, fitted, labels,
                   predicted, raw_zones, fnVars, mapVars, runVars, svcVars>>

\* lines 141-143: the chosen k does not fit the cells
BuildZonesDegenerate ==
    /\ pc = "evaluated"
    /\ payload.cells # <<>>
    /\ k' = ChooseK(metrics, Len(payload.cells))
    /\ Degenerate(k', Len(payload.cells))
    /\ zones' = <<>>
    /\ pc' = "zoned"
    /\ UNCHANGED <<error, genVars, commerce_items, metrics, fitted, labels,
                   predicted, raw_zones, fnVars, mapVars, runVars, svcVars>>

\* a model seeded otherwise than the candidates of evaluate
OtherSeed == EvaluateSeed + 1

\* random_state of the KMeans model _build_zones fits (line 150)
ZonesSeed == 42

\* lines 141-211: fit at the chosen k, attribute the items, rank the zones.
\* KMeans(n_clusters=k, random_state=42).fit_predict(X, sample_weight=pops)
\* and predict are the library's: a fit of KMeansFits
BuildZonesFit ==
    /\ pc = "evaluated"
    /\ payload.cells # <<>>
    /\ \E kk \in {ChooseK(metrics, Len(payload.cells))} :
          /\ ~Degenerate(kk, Len(payload.cells))
          /\ k' = kk
          /\ \E f \in KMeansFits(FitKey(kk, ZonesSeed, TRUE), Len(payload.cells),
                                  Len(CommerceCoords(commerce_items))) :
                /\ labels' = f.labels
                /\ predicted' = f.predicted
                /\ fits' = fits \cup {f}
                /\ \E rz \in {RawZones(0, kk, payload.cells, f.labels)} :
                      \E sorted \in {SortDesc(rz)} :
                          /\ raw_zones' = sorted
                          /\ zones' = ZoneInsights(sorted, CommerceCounts(kk, f.predicted))
    /\ fitted' = TRUE
    /\ pc' = "zoned"
    /\ UNCHANGED <<error, genVars, commerce_items, metrics, fnVars, mapVars, run, first_run, scored, svcVars>>

\* evaluate with its fits and its scorers kept: for each candidate k one fit
\* (lines 75-77), then each scorer on its own try (lines 79-87)
EvaluateFits ==
    /\ pc = "generated"
    /\ EvaluateKValues(Len(payload.cells), NoArg, NoArg) # <<>>
    /\ LET k_values == EvaluateKValues(Len(payload.cells), NoArg, NoArg)
           n == Len(payload.cells)
           m == Len(CommerceCoords(commerce_items))
       IN  \E fs \in FitSeqs(k_values, n, m),
              outcomes \in [1..Len(k_values) ->
                               [sil : ScorerOutcomes, db : ScorerOutcomes]] :
              /\ fits' = fits \cup {fs[i] : i \in 1..Len(fs)}
              /\ scored' = outcomes
              /\ metrics' = KMeansMetrics(k_values,
                               [i \in 1..Len(k_values) |-> Recorded(outcomes[i].sil)],
                               [i \in 1..Len(k_values) |-> Recorded(outcomes[i].db)])
    /\ pc' = "evaluated"
    /\ UNCHANGED <<error, genVars, commerce_items, k, fitted, labels, predicted,
                   raw_zones, zones, fnVars, mapVars, run, first_run, svcVars>>

-----------------------------------------------------------------------------
(* Ingestion: one call of generate on any CSV and any bounding box *)

NotCalled == [notcalled |-> TRUE]

\* evaluate and _build_zones have not run
ZonesIdle ==
    /\ commerce_items = <<>>
    /\ metrics = None
    /\ k = 0
    /\ fitted = FALSE
    /\ labels = <<>>
    /\ predicted = <<>>
    /\ raw_zones = <<>>
    /\ zones = <<>>

\* no helper call is under way
FnIdle == call = NotCalled /\ ret = NotCalled

\* MapBuilder() with its default scale; no map built, nothing returned
MapIdle ==
    /\ scale = "log"
    /\ heat_data = NoLayer
    /\ map_file = NoFile
    /\ artifacts = None

\* no request is under way, no session exists
ServiceIdle ==
    /\ invs = <<>>
    /\ files = <<>>
    /\ collection = <<>>
    /\ reqs = <<>>
    /\ turn = None

\* a first run, before any KMeans fit
RunIdle ==
    /\ run = 1
    /\ first_run = None
    /\ fits = {}
    /\ scored = <<>>

Init ==
    /\ csv_exists \in BOOLEAN
    /\ rows \in SeqsUpTo(RowVals, MaxRows)
    /\ csv_exists = FALSE => rows = <<>>
    /\ bbox \in BBoxVals
    /\ pc = "generate"
    /\ error = "none"
    /\ dir_created = FALSE
    /\ rows_read = 0
    /\ results = <<>>
    /\ total_population = 0
    /\ output_file = NoFile
    /\ payload = None
    /\ ZonesIdle
    /\ FnIdle
    /\ MapIdle
    /\ RunIdle
    /\ ServiceIdle

Next ==
    \/ GenerateNoCsv
    \/ GenerateOpen
    \/ GenerateChunk
    \/ GenerateChunkBadCoords
    \/ GenerateChunkBadPop
    \/ GenerateWrite

Spec == Init /\ [][Next]_vars

-----------------------------------------------------------------------------
(* Ingestion twice: generate called again with the same CSV, bounding box *)
(* and output path                                                         *)

\* what a first run of generate left: the payload it returned and the file
FirstGenerate == [payload |-> payload, file |-> output_file]

\* the caller calls generate a second time; the file of the first run is on
\* disk, the directory exists (mkdir has exist_ok=True)
GenerateAgain ==
    /\ pc = "generated"
    /\ run = 1
    /\ first_run' = FirstGenerate
    /\ run' = 2
    /\ payload' = None
    /\ pc' = "generate"
    /\ UNCHANGED <<csv_exists, rows, bbox, error, dir_created, rows_read, results,
                   total_population, output_file, zoneVars, fnVars, mapVars, fits, scored, svcVars>>

NextTwice ==
    \/ GenerateNoCsv
    \/ GenerateOpen
    \/ GenerateChunk
    \/ GenerateChunkBadCoords
    \/ GenerateChunkBadPop
    \/ GenerateWrite
    \/ GenerateAgain

SpecTwice == Init /\ [][NextTwice]_vars

-----------------------------------------------------------------------------
(* Zone synthesis: run_pipeline from the return of generate on, lines 55-57 *)

\* the row generate turns into the cell c
RowOfCell(c) == [X |-> Num(c.lon), Y |-> Num(c.lat), ind_c |-> Num(c.pop)]

\* the box that holds every cell
WholeBox == [south |-> 0, west |-> 0, north |-> MaxCoord, east |-> MaxCoord]

\* generate has just returned the cells, all inside the box with pop > 0
GeneratedIn(cells, box) ==
    /\ csv_exists = TRUE
    /\ rows = [i \in 1..Len(cells) |-> RowOfCell(cells[i])]
    /\ bbox = box
    /\ pc = "generated"
    /\ error = "none"
    /\ dir_created = TRUE
    /\ rows_read = Len(cells)
    /\ results = cells
    /\ total_population = SumPop(cells)
    /\ output_file = PayloadDict(box, cells, SumPop(cells))
    /\ payload = CarroyagePayload(box, cells, SumPop(cells))

Generated(cells) == GeneratedIn(cells, WholeBox)

\* cells along the meridian 0, any population
ZoneCellVals == [lat : 0..MaxCoord, lon : {0}, pop : 1..MaxPop]

\* commerce items: points of the meridian 0, an item without "lat", an
\* item whose "lon" is no number
ItemVals ==
    {[lat |-> Num(v), lon |-> Num(0)] : v \in 0..MaxCoord}
    \cup {[lat |-> MissingField, lon |-> Num(0)], [lat |-> Num(0), lon |-> BadField]}

ZonesNotBuilt ==
    /\ metrics = None
    /\ k = 0
    /\ fitted = FALSE
    /\ labels = <<>>
    /\ predicted = <<>>
    /\ raw_zones = <<>>
    /\ zones = <<>>

InitZones ==
    /\ \E cells \in SeqsUpTo(ZoneCellVals, MaxCells) : Generated(cells)
    /\ commerce_items = <<>>
    /\ ZonesNotBuilt
    /\ FnIdle
    /\ MapIdle
    /\ RunIdle
    /\ ServiceIdle

InitCommerces ==
    /\ \E cells \in SeqsUpTo(ZoneCellVals, MaxCommerceCells) : Generated(cells)
    /\ commerce_items \in SeqsUpTo(ItemVals, MaxItems)
    /\ ZonesNotBuilt
    /\ FnIdle
    /\ MapIdle
    /\ RunIdle
    /\ ServiceIdle

NextZones ==
    \/ EvaluateNone
    \/ EvaluateCandidates
    \/ BuildZonesNoCells
    \/ BuildZonesDegenerate
    \/ BuildZonesFit

\* cells of any population, no commerce item
SpecZones == InitZones /\ [][NextZones]_vars

\* fewer cells, any commerce items
SpecCommerces == InitCommerces /\ [][NextZones]_vars

-----------------------------------------------------------------------------
(* Zone synthesis on cells whose weighted means need rounding *)

MaxFloatCells == 2
MaxFloatLat == 7
MaxFloatPop == 3

\* cells of the meridian 0 at latitudes that are floats of FloatBits bits
FloatCellVals == [lat : 0..MaxFloatLat, lon : {0}, pop : 1..MaxFloatPop]

FloatBox == [south |-> 0, west |-> 0, north |-> MaxFloatLat, east |-> MaxCoord]

InitCentroid ==
    /\ \E cells \in SeqsUpTo(FloatCellVals, MaxFloatCells) : GeneratedIn(cells, FloatBox)
    /\ commerce_items = <<>>
    /\ ZonesNotBuilt
    /\ FnIdle
    /\ MapIdle
    /\ RunIdle
    /\ ServiceIdle

\* at most two cells: evaluate returns None
NextCentroid ==
    \/ EvaluateNone
    \/ BuildZonesNoCells
    \/ BuildZonesDegenerate
    \/ BuildZonesFit

SpecCentroid == InitCentroid /\ [][NextCentroid]_vars

-----------------------------------------------------------------------------
(* Zone synthesis run twice on the same cells, items and metrics *)

MaxRepeatCells == 4

\* cells of one place with any population
RepeatCellVals == [lat : {0}, lon : {0}, pop : 1..MaxPop]

\* no item, or one item that parses
RepeatItemVals == {<<>>, <<[lat |-> Num(0), lon |-> Num(0)]>>}

\* every list of fewer than MaxRepeatCells cells, and one list of
\* MaxRepeatCells cells, the smallest that gives evaluate two candidates
RepeatCells ==
    SeqsUpTo(RepeatCellVals, MaxRepeatCells - 1)
    \cup {[i \in 1..MaxRepeatCells |-> [lat |-> 0, lon |-> 0, pop |-> 1 + (i % MaxPop)]]}

InitRepeat ==
    /\ \E cells \in RepeatCells : Generated(cells)
    /\ commerce_items \in RepeatItemVals
    /\ Len(rows) = MaxRepeatCells => commerce_items = <<>>
    /\ ZonesNotBuilt
    /\ FnIdle
    /\ MapIdle
    /\ RunIdle
    /\ ServiceIdle

\* what a first call of _build_zones computed and returned
FirstZones == [k |-> k, labels |-> labels, predicted |-> predicted, zones |-> zones]

\* the caller calls _build_zones a second time with the same cells, items
\* and metrics: the locals of the first call are gone, the library is the same
BuildZonesAgain ==
    /\ pc = "zoned"
    /\ run = 1
    /\ first_run' = FirstZones
    /\ run' = 2
    /\ k' = 0
    /\ fitted' = FALSE
    /\ labels' = <<>>
    /\ predicted' = <<>>
    /\ raw_zones' = <<>>
    /\ zones' = <<>>
    /\ pc' = "evaluated"
    /\ UNCHANGED <<error, genVars, commerce_items, metrics, fnVars, mapVars,
                   fits, scored, svcVars>>

NextRepeat ==
    \/ EvaluateNone
    \/ EvaluateFits
    \/ BuildZonesNoCells
    \/ BuildZonesDegenerate
    \/ BuildZonesFit
    \/ BuildZonesAgain

SpecRepeat == InitRepeat /\ [][NextRepeat]_vars

-----------------------------------------------------------------------------
(* MapBuilder.build and the return of run_pipeline, lines 59-76 *)

\* what fmap.save writes: the heat-map layer, the zone rectangles drawn when
\* zones is not empty, one marker for each item that parses
MapHtml(heat, zs, items) ==
    [heat |-> heat, zones |-> zs, markers |-> CommerceCoords(items)]

\* MapBuilder.build (map_builder.py lines 24-48) on payload.data
BuildMap ==
    /\ pc = "zoned"
    /\ LET heat == HeatData(scale, payload.data.cells)
       IN  /\ heat_data' = heat
           /\ map_file' = MapHtml(heat, zones, commerce_items)
    /\ pc' = "mapped"
    /\ UNCHANGED <<error, genVars, zoneVars, fnVars, scale, artifacts, runVars, svcVars>>

\* PipelineArtifacts(...) of lines 67-76; the two files are named by content
PipelineArtifacts ==
    [bbox |-> bbox,
     inhabitants_file |-> output_file,
     map_file |-> map_file,
     kmeans |-> metrics,
     zones |-> zones]

\* run_pipeline returning before the map is built
ReturnArtifactsEarly ==
    /\ pc = "zoned"
    /\ artifacts' = PipelineArtifacts
    /\ pc' = "done"
    /\ UNCHANGED <<error, genVars, zoneVars, fnVars, scale, heat_data, map_file, runVars, svcVars>>

\* lines 67-76: run_pipeline returns
ReturnArtifacts ==
    /\ pc = "mapped"
    /\ artifacts' = PipelineArtifacts
    /\ pc' = "done"
    /\ UNCHANGED <<error, genVars, zoneVars, fnVars, scale, heat_data, map_file, runVars, svcVars>>

-----------------------------------------------------------------------------
(* Rendering: run_pipeline from the return of generate on, any scale *)

\* cells of one place, any population
RenderCellVals == [lat : {0}, lon : {0}, pop : 1..MaxRenderPop]

InitRender ==
    /\ \E cells \in SeqsUpTo(RenderCellVals, MaxRenderCells) : Generated(cells)
    /\ commerce_items = <<>>
    /\ ZonesNotBuilt
    /\ FnIdle
    /\ scale \in Scales
    /\ heat_data = NoLayer
    /\ map_file = NoFile
    /\ artifacts = None
    /\ RunIdle
    /\ ServiceIdle

NextRender ==
    \/ EvaluateNone
    \/ EvaluateCandidates
    \/ BuildZonesNoCells
    \/ BuildZonesDegenerate
    \/ BuildZonesFit
    \/ BuildMap
    \/ ReturnArtifacts

SpecRender == InitRender /\ [][NextRender]_vars

-----------------------------------------------------------------------------
(* run_pipeline as a whole, lines 44-76: any request, any CSV *)

\* lines 99-101: data["bbox"] is not a dict
ExtractBBoxMissing ==
    /\ pc = "extract"
    /\ bbox = None
    /\ pc' = "raised"
    /\ error' = "ValueError"
    /\ UNCHANGED <<genVars, zoneVars, fnVars, mapVars, runVars, svcVars>>

\* lines 102-107: the four edges become a BoundingBox, whatever their order
ExtractBBox ==
    /\ pc = "extract"
    /\ bbox # None
    /\ pc' = "generate"
    /\ UNCHANGED <<error, genVars, zoneVars, fnVars, mapVars, runVars, svcVars>>

\* rows of the meridian 0: populated ones, one without population, one whose
\* population is text, one whose X is text
PipeRowVals ==
    {[X |-> Num(0), Y |-> Num(y), ind_c |-> Num(p)] : y \in 0..MaxCoord, p \in 1..MaxPop}
    \cup {[X |-> Num(0), Y |-> Num(0), ind_c |-> NaNField],
          [X |-> Num(0), Y |-> Num(0), ind_c |-> BadField],
          [X |-> BadField, Y |-> Num(0), ind_c |-> Num(1)]}

\* data["bbox"]: missing, the box of every cell, a box with south > north
PipeBoxVals ==
    {None, WholeBox, [south |-> MaxCoord + 1, west |-> 0, north |-> 0, east |-> MaxCoord]}

\* data["items"]: none, or one commerce
PipeItemVals == {<<>>, <<[lat |-> Num(0), lon |-> Num(0)]>>}

InitPipeline ==
    /\ csv_exists \in BOOLEAN
    /\ rows \in SeqsUpTo(PipeRowVals, MaxPipeRows)
    /\ csv_exists = FALSE => rows = <<>>
    /\ bbox \in PipeBoxVals
    /\ pc = "extract"
    /\ error = "none"
    /\ dir_created = FALSE
    /\ rows_read = 0
    /\ results = <<>>
    /\ total_population = 0
    /\ output_file = NoFile
    /\ payload = None
    /\ commerce_items \in PipeItemVals
    /\ ZonesNotBuilt
    /\ FnIdle
    /\ MapIdle
    /\ RunIdle
    /\ ServiceIdle

NextPipeline ==
    \/ ExtractBBoxMissing
    \/ ExtractBBox
    \/ GenerateNoCsv
    \/ GenerateOpen
    \/ GenerateChunk
    \/ GenerateChunkBadCoords
    \/ GenerateChunkBadPop
    \/ GenerateWrite
    \/ EvaluateNone
    \/ EvaluateCandidates
    \/ BuildZonesNoCells
    \/ BuildZonesDegenerate
    \/ BuildZonesFit
    \/ BuildMap
    \/ ReturnArtifacts

SpecPipeline == InitPipeline /\ [][NextPipeline]_vars

-----------------------------------------------------------------------------
(* Helper calls: one call of suggest_k_range, evaluate, _choose_k or         *)
(* _quantile on any arguments                                                 *)

\* nothing of the pipeline has run
PipelineIdle ==
    /\ csv_exists = TRUE
    /\ rows = <<>>
    /\ bbox = WholeBox
    /\ pc = "call"
    /\ error = "none"
    /\ dir_created = FALSE
    /\ rows_read = 0
    /\ results = <<>>
    /\ total_population = 0
    /\ output_file = NoFile
    /\ payload = None
    /\ ZonesIdle

KArgs == {NoArg} \cup {Arg(v) : v \in 0..MaxKArg}

\* the scores _choose_k may be handed
ScoreInputs == {Num(v) : v \in 1..MaxScore} \cup {NaN, NoneScore}

\* the metrics _choose_k may be handed: candidates 2, 3, ... with any scores
MetricsInputs ==
    {None} \cup
    UNION {{KMeansMetrics([i \in 1..n |-> i + 1], sil, db) :
                sil \in [1..n -> ScoreInputs], db \in [1..n -> ScoreInputs]} :
           n \in 0..MaxCand}

\* sorted lists, as sorted(pops) hands them to _quantile
SortedLists ==
    {v \in SeqsUpTo(0..MaxQVal, MaxQLen) : \A i \in 1..(Len(v) - 1) : v[i] <= v[i + 1]}

NoMetrics == [none |-> TRUE]

CallOf(fn, cell_count, k_min, k_max, m, values, q) ==
    [fn |-> fn, cell_count |-> cell_count, k_min |-> k_min, k_max |-> k_max,
     metrics |-> m, values |-> values, q |-> q]

InitCalls ==
    /\ PipelineIdle
    /\ ret = NotCalled
    /\ MapIdle
    /\ RunIdle
    /\ ServiceIdle
    /\ \/ \E n \in 0..MaxCellCount, lo \in KArgs, hi \in KArgs :
             call = CallOf("suggest_k_range", n, lo, hi, NoMetrics, <<>>, 0)
       \/ \E n \in 0..MaxCellCount, lo \in KArgs, hi \in KArgs :
             call = CallOf("evaluate", n, lo, hi, NoMetrics, <<>>, 0)
       \/ \E n \in 0..MaxHeurCells, m \in MetricsInputs :
             call = CallOf("_choose_k", n, NoArg, NoArg, m, <<>>, 0)
       \/ \E v \in SortedLists, qn \in 0..QDen :
             call = CallOf("_quantile", 0, NoArg, NoArg, NoMetrics, v, qn)

Returned(value) ==
    /\ ret' = [val |-> value]
    /\ pc' = "returned"
    /\ UNCHANGED <<error, genVars, zoneVars, call, mapVars, runVars, svcVars>>

\* KMeansEvaluator.suggest_k_range(cell_count, k_min=..., k_max=...)
CallSuggestKRange ==
    /\ pc = "call"
    /\ call.fn = "suggest_k_range"
    /\ Returned(SuggestKRange(call.cell_count, call.k_min, call.k_max))

\* KMeansEvaluator.evaluate on cell_count cells, up to the loop of fits: the
\* k_values of the record, <<>> for None
CallEvaluate ==
    /\ pc = "call"
    /\ call.fn = "evaluate"
    /\ Returned(EvaluateKValues(call.cell_count, call.k_min, call.k_max))

\* PipelineService._choose_k(metrics, cell_count)
CallChooseK ==
    /\ pc = "call"
    /\ call.fn = "_choose_k"
    /\ Returned(ChooseK(call.metrics, call.cell_count))

\* MapBuilder._quantile(values, q)
CallQuantile ==
    /\ pc = "call"
    /\ call.fn = "_quantile"
    /\ Returned(Quantile(call.values, call.q))

NextCalls ==
    \/ CallSuggestKRange
    \/ CallEvaluate
    \/ CallChooseK
    \/ CallQuantile

SpecCalls == InitCalls /\ [][NextCalls]_vars

-----------------------------------------------------------------------------
(* evaluate's record handed to _choose_k, as run_pipeline and _build_zones do *)

MaxEvalCells == 8

InitEvaluate ==
    /\ PipelineIdle
    /\ ret = NotCalled
    /\ MapIdle
    /\ RunIdle
    /\ ServiceIdle
    /\ \E n \in 0..MaxEvalCells, lo \in KArgs, hi \in KArgs :
          call = CallOf("evaluate_metrics", n, lo, hi, NoMetrics, <<>>, 0)

\* KMeansEvaluator.evaluate on cell_count cells: None, or the record with
\* one inertia and two scores for each candidate (metrics.py lines 43-94)
CallEvaluateMetrics ==
    /\ pc = "call"
    /\ call.fn = "evaluate_metrics"
    /\ LET k_values == EvaluateKValues(call.cell_count, call.k_min, call.k_max)
       IN  IF k_values = <<>>
           THEN Returned(None)
           ELSE \E silhouettes \in [1..Len(k_values) -> ScoreOutcomes],
                   davies_scores \in [1..Len(k_values) -> ScoreOutcomes] :
                   Returned(KMeansMetrics(k_values, silhouettes, davies_scores))

\* pipeline.py lines 55-57 and 141: the metrics go to _choose_k with the
\* number of cells
ChooseKOfMetrics ==
    /\ pc = "returned"
    /\ call.fn = "evaluate_metrics"
    /\ call' = CallOf("_choose_k", call.cell_count, NoArg, NoArg, ret.val, <<>>, 0)
    /\ ret' = NotCalled
    /\ pc' = "call"
    /\ UNCHANGED <<error, genVars, zoneVars, mapVars, runVars, svcVars>>

NextEvaluate ==
    \/ CallEvaluateMetrics
    \/ ChooseKOfMetrics
    \/ CallChooseK

SpecEvaluate == InitEvaluate /\ [][NextEvaluate]_vars

-----------------------------------------------------------------------------
(* run_pipeline invocations interleaving on the one PipelineService.  The   *)
(* service, its generator, evaluator and map builder hold configuration     *)
(* only; the invocations share the CSV, read-only, and the files they write *)

MaxInvocations == 2

\* what _normalize_city and _extract_category return for the requests
Cities == {"lyon", "nice"}
Categories == {"bar", "cafe"}

\* the INSEE CSV: one inhabited square at each end of the meridian 0
SharedCsv ==
    <<[X |-> Num(0), Y |-> Num(0), ind_c |-> Num(PopUnit)],
      [X |-> Num(0), Y |-> Num(MaxCoord), ind_c |-> Num(2 * PopUnit)]>>

\* the boxes of the requests: the whole city, its south edge
RequestBoxes == {WholeBox, [south |-> 0, west |-> 0, north |-> 0, east |-> MaxCoord]}

\* inhabitants_path = config.data_dir / f"carroyage_bbox_{city}.json" (line 52)
InhabitantsPath(city) == <<"data", "carroyage_bbox", city, "">>

\* config.views_dir / f"map_insee_{city}_{category}.html" (lines 59, 63)
MapPath(city, category) == <<"views", "map_insee", city, category>>

Paths ==
    {InhabitantsPath(c) : c \in Cities}
    \cup {MapPath(c, g) : c \in Cities, g \in Categories}

\* the payload generate builds for a box, and the map built from it
SharedPayload(b) ==
    LET cells == ChunkCells(SharedCsv, b)
    IN  PayloadDict(b, cells, SumPop(cells))

SharedMap(b, category) == [inhabitants |-> SharedPayload(b), category |-> category]

InitShared ==
    /\ PipelineIdle
    /\ FnIdle
    /\ MapIdle
    /\ RunIdle
    /\ invs = <<>>
    /\ files = [p \in Paths |-> NoFile]
    /\ collection = <<>>
    /\ reqs = <<>>
    /\ turn = None

\* a request arrives: run_pipeline is entered with its city, category, bbox
\* (lines 45-52)
RunPipelineEnter ==
    /\ Len(invs) < MaxInvocations
    /\ \E city \in Cities, category \in Categories, b \in RequestBoxes :
          invs' = Append(invs,
                    [pc |-> "generate", city |-> city, category |-> category,
                     bbox |-> b, payload |-> None, artifact |-> None])
    /\ UNCHANGED <<pc, error, genVars, zoneVars, fnVars, mapVars, runVars,
                   files, collection, reqs, turn>>

\* carroyage.generate up to line 84: the cells are collected in locals and
\* output_path.open("w") empties the file
RunPipelineGenerate ==
    \E i \in 1..Len(invs) :
        /\ invs[i].pc = "generate"
        /\ invs' = [invs EXCEPT ![i].pc = "dump", ![i].payload = SharedPayload(invs[i].bbox)]
        /\ files' = [files EXCEPT ![InhabitantsPath(invs[i].city)] = <<>>]
        /\ UNCHANGED <<pc, error, genVars, zoneVars, fnVars, mapVars, runVars,
                       collection, reqs, turn>>

\* line 85: json.dump(payload_dict, f)
RunPipelineDump ==
    \E i \in 1..Len(invs) :
        /\ invs[i].pc = "dump"
        /\ invs' = [invs EXCEPT ![i].pc = "map"]
        /\ files' = [files EXCEPT ![InhabitantsPath(invs[i].city)] = invs[i].payload]
        /\ UNCHANGED <<pc, error, genVars, zoneVars, fnVars, mapVars, runVars,
                       collection, reqs, turn>>

\* lines 55-65: evaluate and _build_zones on the invocation's own cells,
\* then the map saved under the city and the category
RunPipelineMap ==
    \E i \in 1..Len(invs) :
        /\ invs[i].pc = "map"
        /\ invs' = [invs EXCEPT ![i].pc = "return"]
        /\ files' = [files EXCEPT ![MapPath(invs[i].city, invs[i].category)] =
                        [inhabitants |-> invs[i].payload, category |-> invs[i].category]]
        /\ UNCHANGED <<pc, error, genVars, zoneVars, fnVars, mapVars, runVars,
                       collection, reqs, turn>>

\* lines 67-76: the artifact names the two files
RunPipelineReturn ==
    \E i \in 1..Len(invs) :
        /\ invs[i].pc = "return"
        /\ invs' = [invs EXCEPT ![i].pc = "done",
                                ![i].artifact =
                                    [city |-> invs[i].city,
                                     category |-> invs[i].category,
                                     bbox |-> invs[i].bbox,
                                     inhabitants_file |-> InhabitantsPath(invs[i].city),
                                     map_file |-> MapPath(invs[i].city, invs[i].category)]]
        /\ UNCHANGED <<pc, error, genVars, zoneVars, fnVars, mapVars, runVars,
                       files, collection, reqs, turn>>

NextShared ==
    \/ RunPipelineEnter
    \/ RunPipelineGenerate
    \/ RunPipelineDump
    \/ RunPipelineMap
    \/ RunPipelineReturn

SpecShared == InitShared /\ [][NextShared]_vars

-----------------------------------------------------------------------------
(* POST /chat requests interleaving on the one ChatHistoryStore.  The chat  *)
(* handler is a plain def, run by the server on a pool of threads, so every *)
(* call of the store is one step and the steps of the requests interleave.  *)
(* A session document is found by its position in collection: documents are *)
(* inserted and updated, never deleted (no route calls delete_session).     *)

MaxRequests == 3

\* request.session_id: -1 a string ObjectId rejects, 0 none, the others a
\* well-formed id (known from an earlier response or from GET
\* /chat/sessions, or the id of no document)
SessionArgs == (-1)..MaxRequests

\* the document _create_session inserts (lines 40-51)
NewSession == [title |-> <<"Conversation en cours">>, has_title |-> FALSE, messages |-> <<>>]

\* a payload that leaves the user message out
TurnPayloadAssistantOnly(r) == <<[role |-> "assistant", content |-> r]>>

\* the two messages record_turn pushes (lines 89-92); the content of a
\* message is the request it belongs to
TurnPayload(r) ==
    <<[role |-> "user", content |-> r], [role |-> "assistant", content |-> r]>>

\* city_agent.build_title(request.message, outcome.answer): a title made
\* from the request's own message and answer (routes.py line 88)
BuildTitle(r) == <<"title", r>>

InitChat ==
    /\ PipelineIdle
    /\ FnIdle
    /\ MapIdle
    /\ RunIdle
    /\ invs = <<>>
    /\ files = <<>>
    /\ collection = <<>>
    /\ reqs = <<>>
    /\ turn = None

\* a request passes the two guards (lines 54-57)
ChatReceive ==
    /\ Len(reqs) < MaxRequests
    /\ \E a \in SessionArgs :
          reqs' = Append(reqs,
                    [pc |-> "ensure_session", session_id_arg |-> a,
                     session_id |-> 0, raised |-> FALSE, response |-> None])
    /\ UNCHANGED <<pc, error, genVars, zoneVars, fnVars, mapVars, runVars,
                   invs, files, collection, turn>>

\* ensure_session (chat_history.py lines 25-38): the id of a document that
\* exists is kept; otherwise a session is created and its id returned
EnsureSession ==
    \E r \in 1..Len(reqs) :
        /\ reqs[r].pc = "ensure_session"
        /\ IF reqs[r].session_id_arg \in 1..Len(collection)
           THEN /\ reqs' = [reqs EXCEPT ![r].pc = "run",
                                        ![r].session_id = reqs[r].session_id_arg]
                /\ UNCHANGED collection
           ELSE /\ collection' = Append(collection, NewSession)
                /\ reqs' = [reqs EXCEPT ![r].pc = "run",
                                        ![r].session_id = Len(collection) + 1]
        /\ UNCHANGED <<pc, error, genVars, zoneVars, fnVars, mapVars, runVars,
                       invs, files, turn>>

\* lines 60-70: the recent turns are read and city_agent.run returns an
\* outcome or raises
AgentRun ==
    \E r \in 1..Len(reqs) :
        /\ reqs[r].pc = "run"
        /\ \E raises \in BOOLEAN :
              reqs' = [reqs EXCEPT ![r].pc = "record_turn", ![r].raised = raises]
        /\ UNCHANGED <<pc, error, genVars, zoneVars, fnVars, mapVars, runVars,
                       invs, files, collection, turn>>

\* record_turn (chat_history.py lines 76-100): one update_one pushing both
\* messages.  On the except path the handler returns (lines 72-74)
RecordTurn ==
    \E r \in 1..Len(reqs) :
        /\ reqs[r].pc = "record_turn"
        /\ collection' = [collection EXCEPT ![reqs[r].session_id].messages =
                                                @ \o TurnPayload(r)]
        /\ IF reqs[r].raised
           THEN reqs' = [reqs EXCEPT ![r].pc = "done",
                                     ![r].response = [session_id |-> reqs[r].session_id]]
           ELSE reqs' = [reqs EXCEPT ![r].pc = "needs_title"]
        /\ UNCHANGED <<pc, error, genVars, zoneVars, fnVars, mapVars, runVars,
                       invs, files, turn>>

\* needs_title (chat_history.py lines 53-62): a find_one of has_title.
\* Without a title to build the handler returns (lines 90-126)
NeedsTitle ==
    \E r \in 1..Len(reqs) :
        /\ reqs[r].pc = "needs_title"
        /\ IF ~collection[reqs[r].session_id].has_title
           THEN reqs' = [reqs EXCEPT ![r].pc = "update_title"]
           ELSE reqs' = [reqs EXCEPT ![r].pc = "done",
                                     ![r].response = [session_id |-> reqs[r].session_id]]
        /\ UNCHANGED <<pc, error, genVars, zoneVars, fnVars, mapVars, runVars,
                       invs, files, collection, turn>>

\* build_title, then update_title (chat_history.py lines 64-73): a $set of
\* title and has_title, whatever has_title is by now; the handler returns
UpdateTitle ==
    \E r \in 1..Len(reqs) :
        /\ reqs[r].pc = "update_title"
        /\ collection' = [collection EXCEPT ![reqs[r].session_id].title = BuildTitle(r),
                                            ![reqs[r].session_id].has_title = TRUE]
        /\ reqs' = [reqs EXCEPT ![r].pc = "done",
                                ![r].response = [session_id |-> reqs[r].session_id]]
        /\ UNCHANGED <<pc, error, genVars, zoneVars, fnVars, mapVars, runVars,
                       invs, files, turn>>

NextChat ==
    \/ ChatReceive
    \/ EnsureSession
    \/ AgentRun
    \/ RecordTurn
    \/ NeedsTitle
    \/ UpdateTitle

SpecChat == InitChat /\ [][NextChat]_vars

-----------------------------------------------------------------------------
(* One conversation turn of CityInsightsAgent.  The planner and the         *)
(* responder are taken to answer; the adapter's fetch and the pipeline's    *)
(* analysis return or raise.                                                *)

MaxPlanLen == 2
MaxPlaces == 2

Intents == {"general", "listing", "analysis"}
Tools == {"fetch_commerces", "analyze_city", "respond_direct"}

\* plan.actions: the tools of the planner's actions, in order
Plans == UNION {[1..n -> Tools] : n \in 0..MaxPlanLen}

\* what adapter.run_from_message does: it raises, or returns an AgentPayload
\* (domain.py lines 25-38) with its places
FetchOutcomes ==
    {[raises |-> TRUE]}
    \cup {[raises |-> FALSE,
           payload |-> [city |-> "lyon", category_key |-> "bar",
                        places |-> [i \in 1..n |-> i]]] : n \in 0..MaxPlaces}

\* the methods class MapBuilder defines (map_builder.py lines 17-220)
MapBuilderMethods ==
    {"__init__", "build", "_add_heatmap", "_add_commerce_layer", "_add_zones",
     "_normalize_bbox", "_as_float", "_transform_pop", "_quantile", "_clamp",
     "_fmt_int"}

HasTool(actions, tool) == \E i \in 1..Len(actions) : actions[i] = tool

\* lines 261-277: the default action, then the actions the intent requires
PlannedActions(intent, plan) ==
    LET a0 == IF plan = <<>> THEN <<"fetch_commerces">> ELSE plan
        a1 == IF intent = "analysis" /\ ~HasTool(a0, "analyze_city")
              THEN (IF HasTool(a0, "fetch_commerces")
                    THEN a0 ELSE <<"fetch_commerces">> \o a0) \o <<"analyze_city">>
              ELSE a0
    IN  IF intent = "listing" /\ ~HasTool(a1, "fetch_commerces")
        THEN <<"fetch_commerces">> \o a1
        ELSE a1

\* lines 279-280
NeedsFetch(actions) ==
    HasTool(actions, "fetch_commerces") \/ HasTool(actions, "analyze_city")

WantsAnalysis(intent, actions) ==
    intent = "analysis" \/ HasTool(actions, "analyze_city")

\* the locals of _execute_turn (lines 227-229) and whether it has raised
TurnLocals ==
    [fetch_result |-> None, analysis_result |-> None, map_path |-> None,
     raised |-> FALSE]

\* PipelineService.run_from_agent: the artifacts, of which the map is read
AnalysisOf(p) ==
    [city |-> p.city, category |-> p.category_key,
     map_file |-> [name |-> MapPath(p.city, p.category_key)]]

\* the loop of lines 282-305 from action i on; an exception ends it
RECURSIVE RunActions(_, _, _, _, _)
RunActions(actions, i, st, fetch, analysis_raises) ==
    IF i > Len(actions) \/ st.raised THEN st
    ELSE
    LET fetched == IF fetch.raises
                   THEN [st EXCEPT !.raised = TRUE]
                   ELSE [st EXCEPT !.fetch_result = fetch.payload]
        next ==
          IF actions[i] = "fetch_commerces" /\ st.fetch_result = None
          THEN fetched
          ELSE IF actions[i] = "analyze_city"
          THEN LET s1 == IF st.fetch_result = None THEN fetched ELSE st
               IN  IF s1.raised \/ analysis_raises
                   THEN [s1 EXCEPT !.raised = TRUE]
                   ELSE [s1 EXCEPT !.analysis_result = AnalysisOf(s1.fetch_result),
                                   !.map_path = AnalysisOf(s1.fetch_result).map_file]
          ELSE st
    IN  RunActions(actions, i + 1, next, fetch, analysis_raises)

\* PipelineService.build_points_map (pipeline.py lines 78-85): the call of
\* self.map_builder.build_points_map, an AttributeError when MapBuilder has
\* no such method
BuildPointsMap(st) ==
    IF "build_points_map" \in MapBuilderMethods
    THEN [st EXCEPT !.map_path =
            [name |-> <<"views", "map_points", st.fetch_result.city,
                        st.fetch_result.category_key>>]]
    ELSE [st EXCEPT !.raised = TRUE]

\* _execute_turn (lines 221-340), returning its locals at the end
ExecuteTurn(intent, plan, fetch, analysis_raises) ==
    LET actions == PlannedActions(intent, plan)
        looped == RunActions(actions, 1, TurnLocals, fetch, analysis_raises)
        checked == IF ~looped.raised /\ NeedsFetch(actions) /\ looped.fetch_result = None
                   THEN [looped EXCEPT !.raised = TRUE]
                   ELSE looped
    IN  IF /\ ~checked.raised
           /\ checked.fetch_result # None
           /\ checked.fetch_result.places # <<>>
           /\ ~WantsAnalysis(intent, actions)
        THEN BuildPointsMap(checked)
        ELSE checked

\* the AgentOutcome of run (lines 194-219): that of _execute_turn, or the
\* error outcome when it raised
AgentOutcome(intent, st) ==
    IF st.raised
    THEN [answer |-> "error", fetch |-> None, analysis |-> None,
          map_file |-> None, intent |-> "general"]
    ELSE [answer |-> "answer", fetch |-> st.fetch_result,
          analysis |-> st.analysis_result, map_file |-> st.map_path,
          intent |-> intent]

InitAgent ==
    /\ PipelineIdle
    /\ FnIdle
    /\ MapIdle
    /\ RunIdle
    /\ ServiceIdle

\* a message arrives: its intent, the planner's plan, and what the adapter
\* and the pipeline will do in this turn
AgentReceive ==
    /\ turn = None
    /\ \E intent \in Intents, plan \in Plans, fetch \in FetchOutcomes,
          analysis_raises \in BOOLEAN :
          turn' = [pc |-> "run", intent |-> intent, plan |-> plan,
                   fetch |-> fetch, analysis_raises |-> analysis_raises,
                   locals |-> TurnLocals, outcome |-> None]
    /\ UNCHANGED <<pc, error, genVars, zoneVars, fnVars, mapVars, runVars,
                   invs, files, collection, reqs>>

\* CityInsightsAgent.run
AgentRunTurn ==
    /\ turn # None
    /\ turn.pc = "run"
    /\ \E st \in {ExecuteTurn(turn.intent, turn.plan, turn.fetch, turn.analysis_raises)} :
          turn' = [turn EXCEPT !.pc = "done", !.locals = st,
                               !.outcome = AgentOutcome(turn.intent, st)]
    /\ UNCHANGED <<pc, error, genVars, zoneVars, fnVars, mapVars, runVars,
                   invs, files, collection, reqs>>

NextAgent ==
    \/ AgentReceive
    \/ AgentRunTurn

SpecAgent == InitAgent /\ [][NextAgent]_vars

-----------------------------------------------------------------------------
(* Properties of generate *)

Abs(x) == IF x < 0 THEN -x ELSE x

\* every field of the row is a number, or an empty ind_c
WellFormed(row) == row.X.kind = "num" /\ row.Y.kind = "num" /\ row.ind_c.kind # "bad"

\* the row's population, a missing one counting as 0
RowPop(row) == IF row.ind_c.kind = "num" THEN row.ind_c.val ELSE 0

\* the row's reprojected position is inside the box, edges included
RowInBox(row, b) ==
    LET p == Reproject(row.X.val * ScaleXY, row.Y.val * ScaleXY)
    IN  b.south <= p.lat /\ p.lat <= b.north /\ b.west <= p.lon /\ p.lon <= b.east

RowSurvives(row, b) == WellFormed(row) /\ RowInBox(row, b) /\ RowPop(row) > 0

RECURSIVE ExpectedCells(_, _)
\* one cell per surviving row, in file order
ExpectedCells(rs, b) ==
    IF rs = <<>> THEN <<>>
    ELSE (IF RowSurvives(Head(rs), b)
          THEN <<[lat |-> Reproject(0, Head(rs).Y.val * ScaleXY).lat,
                  lon |-> Reproject(Head(rs).X.val * ScaleXY, 0).lon,
                  pop |-> RowPop(Head(rs))]>>
          ELSE <<>>) \o ExpectedCells(Tail(rs), b)

\* C1: whenever generate returns, the cells it emits are exactly the cells
\* of the rows whose reprojected latitude is in [south, north], whose
\* reprojected longitude is in [west, east] and whose population is > 0 (an
\* empty population counting as 0); and every cell generate holds, at any
\* time, is inside the box with pop > 0.
C1_EmitsIffSurvives ==
    /\ pc = "generated" => payload.cells = ExpectedCells(rows, bbox)
    /\ \A i \in 1..Len(results) :
          LET c == results[i]
          IN  /\ bbox.south <= c.lat /\ c.lat <= bbox.north
              /\ bbox.west <= c.lon /\ c.lon <= bbox.east
              /\ c.pop > 0

\* a returned run over two rows inside the box, one on its north-east corner
\* and emitted, the other without population and dropped
C1_Witness ==
    /\ pc = "generated"
    /\ Len(rows) = 2
    /\ Len(payload.cells) = 1
    /\ payload.cells[1].lat = bbox.north
    /\ payload.cells[1].lon = bbox.east
    /\ \E i \in 1..2 : rows[i].ind_c.kind = "nan" /\ RowInBox(rows[i], bbox)

\* C2: after generate returns, total_population is the sum of the emitted
\* cells' pop rounded to a nearest integer, that sum is the sum of the
\* populations of all rows inside the box with population > 0, count_cells is
\* the number of cells, and the written JSON carries the same cells,
\* count_cells and total_population as the returned payload.
C2_TotalsMatch ==
    pc = "generated" =>
        LET sum == SumPop(payload.cells)
            inBox == SumSeq([i \in 1..Len(rows) |->
                        IF RowSurvives(rows[i], bbox) THEN RowPop(rows[i]) ELSE 0])
        IN  /\ 2 * Abs(payload.total_population * PopUnit - sum) <= PopUnit
            /\ sum = inBox
            /\ payload.count_cells = Len(payload.cells)
            /\ output_file # NoFile
            /\ output_file.cells = payload.cells
            /\ output_file.count_cells = payload.count_cells
            /\ output_file.total_population = payload.total_population

\* two chunks, two cells, a fractional sum that rounds up
C2_Witness ==
    /\ pc = "generated"
    /\ Len(rows) > ChunkSize
    /\ payload.count_cells = 2
    /\ SumPop(payload.cells) % PopUnit # 0
    /\ payload.total_population = 1

-----------------------------------------------------------------------------
(* Properties of _build_zones *)

\* the cells _build_zones was handed
Cells == payload.cells

\* cell i belongs to the zone of rank z: its cluster is the zone's
Member(i, z) == fitted /\ labels[i] = raw_zones[z].cluster

Members(z) == {i \in 1..Len(Cells) : Member(i, z)}

\* C3: _build_zones returns an empty zone list, without fitting any
\* clustering, whenever the k it chose satisfies k >= cellCount or k < 2,
\* the boundary k = cellCount included.
C3_EmptyWhenKAtLeastCount ==
    (pc = "zoned" /\ Cells # <<>> /\ (k >= Len(Cells) \/ k < 2)) =>
        (zones = <<>> /\ ~fitted)

\* C4: a non-empty result of _build_zones is ordered by population,
\* non-increasing, and its zone_id values are 1..len(zones) in list order.
C4_ZonesRanked ==
    (pc = "zoned" /\ zones # <<>>) =>
        /\ \A i, j \in 1..Len(zones) : i < j => zones[i].population >= zones[j].population
        /\ \A i \in 1..Len(zones) : zones[i].zone_id = i

\* k = 3 with the middle cluster empty: two zones, the more populated one
\* from the last cluster
C4_Witness ==
    /\ pc = "zoned"
    /\ k = 3
    /\ Len(zones) = 2
    /\ MaskOf(labels, 1) = {}
    /\ raw_zones[1].cluster = 2
    /\ zones[1].population > zones[2].population

\* C25: the bounds of every zone are the tightest box around its member
\* cells (south/north the least and greatest member latitude, west/east the
\* least and greatest member longitude), every member cell is inside it, and
\* the zone's population-weighted centroid (lat, lon) is inside it.
C25_CentroidInsideBounds ==
    pc = "zoned" =>
        \A z \in 1..Len(zones) :
            LET b == zones[z].bounds
                mlats == {Cells[i].lat : i \in Members(z)}
                mlons == {Cells[i].lon : i \in Members(z)}
            IN  /\ b.south \in mlats /\ \A v \in mlats : b.south <= v
                /\ b.north \in mlats /\ \A v \in mlats : v <= b.north
                /\ b.west \in mlons /\ \A v \in mlons : b.west <= v
                /\ b.east \in mlons /\ \A v \in mlons : v <= b.east
                /\ FloatLeq(Float(b.south), zones[z].lat)
                /\ FloatLeq(zones[z].lat, Float(b.north))
                /\ FloatLeq(Float(b.west), zones[z].lon)
                /\ FloatLeq(zones[z].lon, Float(b.east))

\* C24: clusters of equal total population come out in ascending cluster
\* index: of two such zones the one from the smaller cluster index is earlier
\* in the list and has the smaller zone_id.
C24_TiesByClusterIndex ==
    (pc = "zoned" /\ zones # <<>>) =>
        /\ Len(raw_zones) = Len(zones)
        /\ \A i, j \in 1..Len(zones) :
              (raw_zones[i].population = raw_zones[j].population
               /\ raw_zones[i].cluster < raw_zones[j].cluster) =>
                  /\ i < j
                  /\ zones[i].zone_id < zones[j].zone_id
                  /\ zones[i].population = raw_zones[i].population

\* three zones: cluster 1 is the most populated, clusters 0 and 2 tie and
\* follow in that order
C24_Witness ==
    /\ pc = "zoned"
    /\ k = 3
    /\ Len(zones) = 3
    /\ raw_zones[1].cluster = 1
    /\ raw_zones[2].cluster = 0
    /\ raw_zones[3].cluster = 2
    /\ raw_zones[2].population = raw_zones[3].population
    /\ zones[2].zone_id = 2

\* every cell is in exactly one zone, a zone's population is the sum of its
\* cells' pop, and the zones' populations add up to that of the cells
ZonesPartitionCells ==
    /\ \A i \in 1..Len(Cells) : Cardinality({z \in 1..Len(zones) : Member(i, z)}) = 1
    /\ \A z \in 1..Len(zones) :
          zones[z].population = SumOver([i \in 1..Len(Cells) |-> Cells[i].pop], Members(z))
    /\ SumSeq([z \in 1..Len(zones) |-> zones[z].population]) = SumPop(Cells)

\* C8 as stated: the zones returned by _build_zones partition the cell set,
\* whatever the cells.
C8_AlwaysPartition == pc = "zoned" => ZonesPartitionCells

\* C8 as amended: a non-empty result of _build_zones partitions the cell set:
\* every cell belongs to exactly one zone, each zone's population is the sum
\* of its member cells' pop, and the zone populations add up to the cells'.
C8_NonEmptyResultPartitions == (pc = "zoned" /\ zones # <<>>) => ZonesPartitionCells

\* four cells of different populations in two zones, one of them of three
\* cells
C8_Witness ==
    /\ pc = "zoned"
    /\ Len(Cells) = 4
    /\ Len(zones) = 2
    /\ Cardinality(Members(1)) = 3
    /\ \E i, j \in Members(1) : Cells[i].pop # Cells[j].pop

\* the items whose two coordinates are numbers
Parseable == {i \in 1..Len(commerce_items) :
                 commerce_items[i].lat.kind = "num" /\ commerce_items[i].lon.kind = "num"}

SumCommerces == SumSeq([z \in 1..Len(zones) |-> zones[z].existing_commerces])

\* C9: _build_zones ends without error whatever the items; every item that
\* parses gets one prediction and is counted in the zone of the predicted
\* cluster and in no other; so the existing_commerces add up to at most the
\* number of items that parse, and to exactly that number when no cluster is
\* empty.
C9_CommercesCounted ==
    pc = "zoned" =>
        /\ error = "none"
        /\ fitted => Len(predicted) = Cardinality(Parseable)
        /\ \A z \in 1..Len(zones) :
              zones[z].existing_commerces =
                  Cardinality({j \in 1..Len(predicted) : predicted[j] = raw_zones[z].cluster})
        /\ SumCommerces <= Cardinality(Parseable)
        /\ (fitted /\ \A idx \in 0..(k - 1) : MaskOf(labels, idx) # {}) =>
              SumCommerces = Cardinality(Parseable)

\* two items, one of them unusable; the other is counted in the first zone,
\* which comes from cluster 1
C9_Witness ==
    /\ pc = "zoned"
    /\ Len(commerce_items) = 2
    /\ Cardinality(Parseable) = 1
    /\ Len(zones) = 2
    /\ raw_zones[1].cluster = 1
    /\ zones[1].existing_commerces = 1
    /\ zones[2].existing_commerces = 0

-----------------------------------------------------------------------------
(* Properties of the helpers *)

ChoseK == pc = "returned" /\ call.fn = "_choose_k"

\* the indices of the scores that are numbers
DefinedIdx(scores) == {i \in 1..Len(scores) : scores[i].kind = "num"}

\* lines 239-245 as the table of the claim
HeuristicTable(n) ==
    CASE n <= 5 -> 2
      [] n > 5 /\ n <= 50 -> 3
      [] n > 50 /\ n <= 150 -> 4
      [] n > 150 -> 5

\* C5: _choose_k returns a k of maximum silhouette among the candidates whose
\* silhouette is defined, whatever the Davies-Bouldin scores; if none is
\* defined, a k of minimum Davies-Bouldin among those defined; if none is
\* (metrics None, no k values, every score NaN or None), the size heuristic.
C5_ChooseKPolicy ==
    ChoseK =>
        LET m == call.metrics
            usable == m # None /\ m.k_values # <<>>
            sil == IF usable THEN DefinedIdx(m.silhouette) ELSE {}
            db == IF usable THEN DefinedIdx(m.davies_bouldin) ELSE {}
        IN  IF sil # {}
            THEN \E i \in sil :
                    /\ \A j \in sil : m.silhouette[j].val <= m.silhouette[i].val
                    /\ ret.val = m.k_values[i]
            ELSE IF db # {}
            THEN \E i \in db :
                    /\ \A j \in db : m.davies_bouldin[j].val >= m.davies_bouldin[i].val
                    /\ ret.val = m.k_values[i]
            ELSE ret.val = HeuristicTable(call.cell_count)

\* the second candidate has the best silhouette and the worst Davies-Bouldin
C5_Witness ==
    /\ ChoseK
    /\ call.metrics # None
    /\ Len(call.metrics.k_values) = 2
    /\ call.metrics.silhouette = <<Num(1), Num(2)>>
    /\ call.metrics.davies_bouldin = <<Num(1), Num(2)>>
    /\ ret.val = 3

\* the adaptive range table of the claim
RangeTable(n) ==
    CASE n < 20 -> <<2, 4>>
      [] n >= 20 /\ n < 60 -> <<3, 6>>
      [] n >= 60 /\ n < 150 -> <<4, 8>>
      [] n >= 150 /\ n < 300 -> <<5, 10>>
      [] n >= 300 /\ n < 600 -> <<6, 12>>
      [] n >= 600 -> <<8, 15>>

\* C6: without k_min and k_max, suggest_k_range(cellCount) is the table entry
\* with both ends clamped to max(2, cellCount - 1); it is (2, 4) for 5 cells
\* and the table entry itself from 16 cells on.
C6_AdaptiveRangeTable ==
    (pc = "returned" /\ call.fn = "suggest_k_range" /\ call.k_min.none /\ call.k_max.none) =>
        LET n == call.cell_count
            cap == Max(2, n - 1)
        IN  /\ ret.val = <<Min(RangeTable(n)[1], cap), Min(RangeTable(n)[2], cap)>>
            /\ n = 5 => ret.val = <<2, 4>>
            /\ n >= 16 => ret.val = RangeTable(n)

\* a call at the first row of the table that the clamp cuts
C6_Witness ==
    /\ pc = "returned"
    /\ call.fn = "suggest_k_range"
    /\ call.k_min.none /\ call.k_max.none
    /\ call.cell_count = 4
    /\ ret.val = <<2, 3>>

\* C7: evaluate returns None exactly when there is no cell or cellCount <=
\* kMin after clamping, and a record otherwise; with the default range, 2
\* cells give None and 3 cells a record whose only candidate is k = 2.
C7_EvaluateNoneIffTooFew ==
    (pc = "returned" /\ call.fn = "evaluate") =>
        LET n == call.cell_count
            kMin == SuggestKRange(n, call.k_min, call.k_max)[1]
        IN  /\ ret.val = <<>> <=> (n = 0 \/ n <= kMin)
            /\ (call.k_min.none /\ call.k_max.none /\ n = 2) => ret.val = <<>>
            /\ (call.k_min.none /\ call.k_max.none /\ n = 3) => ret.val = <<2>>

\* three cells, default range: the record with the single candidate 2
C7_Witness ==
    /\ pc = "returned"
    /\ call.fn = "evaluate"
    /\ call.k_min.none /\ call.k_max.none
    /\ call.cell_count = 3
    /\ ret.val = <<2>>

CalledQuantile == pc = "returned" /\ call.fn = "_quantile" /\ call.values # <<>>

\* C10: on a non-empty sorted list, _quantile at q = 0 is the minimum, at
\* q = 1 the maximum, it does not decrease when q grows, and for 0 < q < 1 it
\* is the linear interpolation between the order statistics at
\* floor((n-1)q) and ceil((n-1)q), that order statistic itself when (n-1)q
\* is an integer.
C10_QuantileInterpolates ==
    CalledQuantile =>
        LET v == call.values
            n == Len(v)
            qn == call.q
            floor == ((n - 1) * qn) \div QDen
            ceil == IF ((n - 1) * qn) % QDen = 0 THEN floor ELSE floor + 1
            part == (n - 1) * qn - floor * QDen
        IN  /\ ret.val.den = QDen
            /\ qn = 0 => ret.val.num = QDen * MinOf({v[i] : i \in 1..n})
            /\ qn = QDen => ret.val.num = QDen * MaxOf({v[i] : i \in 1..n})
            /\ \A q2 \in qn..QDen : Quantile(v, q2).num >= ret.val.num
            /\ (0 < qn /\ qn < QDen) =>
                  ret.val.num = QDen * v[floor + 1] + part * (v[ceil + 1] - v[floor + 1])
            /\ (0 < qn /\ qn < QDen /\ part = 0) => ret.val.num = QDen * v[floor + 1]

\* a quantile strictly between two different neighbours, nearer the lower
C10_Witness ==
    /\ CalledQuantile
    /\ call.values = <<0, 1, 3>>
    /\ call.q = 15
    /\ ret.val.num = 40

-----------------------------------------------------------------------------
(* Properties of the heat map *)

Drawn == pc \in {"mapped", "done"} /\ heat_data.drawn

\* C11: for every cell set and every scale, each heat-map weight lies in
\* [0.03, 1], is clamp((T(p) - loT)/denom, 0, 1) raised to at least 0.03, and
\* does not decrease when the cell's population grows.
C11_WeightsInRange ==
    Drawn =>
        LET cells == payload.data.cells
            range == HeatRange(scale, [i \in 1..Len(cells) |-> cells[i].pop])
            W(i) == heat_data.data[i].weight
            \* numerator of (T(p) - loT)/denom over range.denom
            Raw(i) == TransformPop(scale, cells[i].pop, PopUnit) - range.lo_t
            Clamped(i) == IF Raw(i) < 0 THEN 0
                          ELSE IF Raw(i) > range.denom THEN range.denom ELSE Raw(i)
        IN  /\ Len(heat_data.data) = Len(cells)
            /\ range.denom > 0
            /\ \A i \in 1..Len(cells) :
                  /\ W(i).den > 0
                  /\ 3 * W(i).den <= 100 * W(i).num
                  /\ W(i).num <= W(i).den
                  /\ IF 100 * Clamped(i) >= 3 * range.denom
                     THEN W(i).num * range.denom = Clamped(i) * W(i).den
                     ELSE 100 * W(i).num = 3 * W(i).den
            /\ \A i, j \in 1..Len(cells) :
                  /\ W(i).den = W(j).den
                  /\ cells[i].pop <= cells[j].pop => W(i).num <= W(j).num

\* three cells of different populations on the sqrt scale: the weights are
\* the floor 0.03, a value strictly between, and 1
C11_Witness ==
    /\ Drawn
    /\ scale = "sqrt"
    /\ Len(heat_data.data) = 3
    /\ 100 * heat_data.data[1].weight.num = 3 * heat_data.data[1].weight.den
    /\ heat_data.data[2].weight.num > heat_data.data[1].weight.num
    /\ heat_data.data[2].weight.num < heat_data.data[2].weight.den
    /\ heat_data.data[3].weight.num = heat_data.data[3].weight.den

\* line 68's threshold 1e-12 in units of 1/TScale: no more than one unit
Epsilon == 1

\* hi_t - lo_t for the cells of the payload, in units of 1/TScale
Spread ==
    LET cells == payload.data.cells
        pops_sorted == Sorted([i \in 1..Len(cells) |-> cells[i].pop])
        lo_raw == Quantile(pops_sorted, LoQ)
        hi_raw == Quantile(pops_sorted, HiQ)
    IN  TransformPop(scale, hi_raw.num, hi_raw.den * PopUnit)
        - TransformPop(scale, lo_raw.num, lo_raw.den * PopUnit)

\* C26: the denominator of every weight is max(hiT - loT, epsilon) for a
\* small epsilon: when hiT - loT does not exceed epsilon, the division is by
\* epsilon itself, on every scale.
C26_DenominatorIsEpsilon ==
    Drawn =>
        \A i \in 1..Len(heat_data.data) :
            IF Spread > 0
            THEN heat_data.data[i].weight.den = 100 * Spread
            ELSE /\ heat_data.data[i].weight.den > 0
                 /\ heat_data.data[i].weight.den <= 100 * Epsilon

\* every cell of the payload has the population of the first
SamePop ==
    \A i \in 1..Len(payload.data.cells) :
        payload.data.cells[i].pop = payload.data.cells[1].pop

\* C27: when all cells have the same population, every cell gets the same
\* heat-map weight and no weight is a division by zero, on each scale.
C27_EqualPopsEqualWeights ==
    (Drawn /\ SamePop) =>
        \A i \in 1..Len(heat_data.data) :
            /\ heat_data.data[i].weight.den > 0
            /\ heat_data.data[i].weight = heat_data.data[1].weight

\* three cells of population 2 drawn on the log scale, with one weight
C27_Witness ==
    /\ Drawn
    /\ scale = "log"
    /\ Len(heat_data.data) = 3
    /\ SamePop
    /\ payload.data.cells[1].pop = 2
    /\ heat_data.data[3].weight = heat_data.data[1].weight
    /\ 100 * heat_data.data[1].weight.num = 3 * heat_data.data[1].weight.den

-----------------------------------------------------------------------------
(* Properties of run_pipeline *)

InvalidBox(b) == b.south >= b.north \/ b.west >= b.east

\* C12: a bounding box with south >= north or west >= east is rejected
\* before any I/O: the run raises without creating a directory, reading the
\* CSV or writing a file.
C12_InvalidBoxRejected ==
    (bbox # None /\ InvalidBox(bbox)) =>
        /\ pc \in {"extract", "generate", "raised"}
        /\ ~dir_created
        /\ rows_read = 0
        /\ output_file = NoFile
        /\ map_file = NoFile

\* C14: when the CSV does not exist, generate raises FileNotFoundError to the
\* caller and nothing is created: no output directory, no carroyage JSON, no
\* map, no artifact.
C14_MissingCsvLeavesNothing ==
    ~csv_exists =>
        /\ ~dir_created
        /\ output_file = NoFile
        /\ map_file = NoFile
        /\ artifacts = None
        /\ payload = None
        /\ pc \in {"extract", "generate", "raised"}
        /\ (pc = "raised" /\ bbox # None) => error = "FileNotFoundError"

\* the run with a readable request and no CSV has raised
C14_Witness ==
    /\ ~csv_exists
    /\ bbox # None
    /\ pc = "raised"
    /\ error = "FileNotFoundError"
    /\ ~dir_created

\* generate returned with no cell
NoCellSurvived == payload # None /\ payload.cells = <<>>

\* C15: when no cell survives the filter the run does not fail: the payload
\* written and returned has count_cells = 0 and total_population = 0,
\* evaluate returns None, _build_zones returns no zone without fitting, the
\* map is saved without heat-map layer, and the artifact returned has no
\* zone.
C15_EmptyResultCompletes ==
    NoCellSurvived =>
        /\ pc \in {"generated", "evaluated", "zoned", "mapped", "done"}
        /\ error = "none"
        /\ payload.count_cells = 0 /\ payload.total_population = 0
        /\ output_file # NoFile
        /\ output_file.count_cells = 0 /\ output_file.total_population = 0
        /\ metrics = None
        /\ zones = <<>> /\ ~fitted
        /\ pc \in {"mapped", "done"} =>
              map_file # NoFile /\ ~map_file.heat.drawn /\ map_file.zones = <<>>
        /\ pc = "done" =>
              artifacts # None /\ artifacts.zones = <<>> /\ artifacts.kmeans = None
        /\ pc # "done" => ENABLED NextPipeline

\* a CSV with rows, none of which survives, and the run has returned
C15_Witness ==
    /\ NoCellSurvived
    /\ Len(rows) = MaxPipeRows
    /\ pc = "done"
    /\ artifacts # None
    /\ artifacts.inhabitants_file.count_cells = 0

\* the order of the stages of run_pipeline, and the two ways it ends
StageOrder ==
    {<<"extract", "generate">>, <<"generate", "chunks">>, <<"chunks", "generated">>,
     <<"generated", "evaluated">>, <<"evaluated", "zoned">>, <<"zoned", "mapped">>,
     <<"mapped", "done">>,
     <<"extract", "raised">>, <<"generate", "raised">>, <<"chunks", "raised">>}

\* the artifact is there exactly when the run returned, and it is complete
ArtifactComplete ==
    /\ artifacts # None <=> pc = "done"
    /\ pc = "done" =>
          /\ error = "none"
          /\ output_file # NoFile /\ map_file # NoFile /\ payload # None
          /\ artifacts.bbox = bbox
          /\ artifacts.inhabitants_file = output_file
          /\ artifacts.map_file = map_file
          /\ artifacts.kmeans = metrics
          /\ artifacts.zones = zones
    /\ error # "none" <=> pc = "raised"
    \* a run goes on until it returns or raises (at "zoned" the next step,
    \* MapBuilder.build, has no condition)
    /\ pc \notin {"done", "raised", "zoned"} => ENABLED NextPipeline
    /\ pc \in {"done", "raised"} => ~ENABLED NextPipeline

\* C16: every run of run_pipeline goes through ingestion, evaluation, zone
\* synthesis and rendering in that order and then returns a complete
\* artifact, or raises; it never returns a partly built artifact.
C16_CompleteOrRaise ==
    /\ []ArtifactComplete
    /\ [][pc' # pc => <<pc, pc'>> \in StageOrder]_vars

\* a run that returned zones and metrics
C16_Witness ==
    /\ pc = "done"
    /\ artifacts # None
    /\ artifacts.kmeans # None
    /\ Len(artifacts.zones) = 2
    /\ artifacts.map_file.heat.drawn

-----------------------------------------------------------------------------
(* Properties of generate: malformed rows *)

Malformed(row) == ~WellFormed(row)

\* C13: a row with an unparsable X, Y or population is skipped on its own:
\* generate does not raise, and it returns exactly the cells of the
\* well-formed rows that pass the filter.
C13_MalformedRowsSkipped ==
    (csv_exists /\ \E i \in 1..Len(rows) : Malformed(rows[i])) =>
        /\ pc # "raised"
        /\ pc = "generated" => payload.cells = ExpectedCells(rows, bbox)

-----------------------------------------------------------------------------
(* Properties of suggest_k_range: the clamp *)

CalledSuggest == pc = "returned" /\ call.fn = "suggest_k_range"

\* the range asked for: the arguments, a default for an absent one, the
\* table when both are absent
Asked(n, lo, hi) ==
    IF lo.none /\ hi.none THEN RangeTable(n)
    ELSE <<IF lo.none THEN 2 ELSE lo.val, IF hi.none THEN 10 ELSE hi.val>>

\* C22: for every cell count and every explicit or absent k_min, k_max,
\* suggest_k_range returns 2 <= kMin <= kMax <= max(2, cellCount - 1); when
\* the clamp leaves kMax = kMin and max(2, cellCount - 1) > kMin, kMax is
\* kMin + 1.
C22_RangeClamped ==
    CalledSuggest =>
        LET n == call.cell_count
            cap == Max(2, n - 1)
            asked == Asked(n, call.k_min, call.k_max)
            kMin == ret.val[1]
            kMax == ret.val[2]
        IN  /\ 2 <= kMin
            /\ kMin <= kMax
            /\ kMax <= cap
            /\ (Min(asked[2], cap) <= kMin /\ cap > kMin) => kMax = kMin + 1
            /\ cap > kMin => kMax > kMin

\* k_min = k_max = 3 asked for 10 cells: the range returned is (3, 4)
C22_Witness ==
    /\ CalledSuggest
    /\ call.cell_count = 10
    /\ call.k_min = Arg(3)
    /\ call.k_max = Arg(3)
    /\ ret.val = <<3, 4>>

-----------------------------------------------------------------------------
(* Properties of evaluate: the candidates of the record *)

EvaluatedRecord == pc = "returned" /\ call.fn = "evaluate_metrics" /\ ret.val # None

\* C23: the k_values of a record evaluate returns are the integers k with
\* kMin <= k <= kMax and k < cellCount, ascending; there is at least one and
\* each has 2 <= k < cellCount; inertia, silhouette and davies_bouldin have
\* one entry per candidate; a k that _choose_k takes from the record has
\* 2 <= k < cellCount.
C23_CandidatesInRange ==
    /\ EvaluatedRecord =>
          LET m == ret.val
              n == call.cell_count
              r == SuggestKRange(n, call.k_min, call.k_max)
              wanted == {kk \in r[1]..r[2] : kk < n}
          IN  /\ m.k_values # <<>>
              /\ {m.k_values[i] : i \in 1..Len(m.k_values)} = wanted
              /\ \A i \in 1..(Len(m.k_values) - 1) : m.k_values[i] < m.k_values[i + 1]
              /\ \A i \in 1..Len(m.k_values) : 2 <= m.k_values[i] /\ m.k_values[i] < n
              /\ Len(m.inertia) = Len(m.k_values)
              /\ Len(m.silhouette) = Len(m.k_values)
              /\ Len(m.davies_bouldin) = Len(m.k_values)
    /\ (ChoseK /\ call.metrics # None) =>
          LET m == call.metrics
          IN  (DefinedIdx(m.silhouette) \cup DefinedIdx(m.davies_bouldin) # {}) =>
                  /\ \E i \in 1..Len(m.k_values) : ret.val = m.k_values[i]
                  /\ 2 <= ret.val
                  /\ ret.val < call.cell_count

\* five cells: candidates 2, 3, 4, and _choose_k takes the last
C23_Witness ==
    /\ ChoseK
    /\ call.cell_count = 5
    /\ call.metrics # None
    /\ call.metrics.k_values = <<2, 3, 4>>
    /\ Len(call.metrics.inertia) = 3
    /\ ret.val = 4

-----------------------------------------------------------------------------
(* Properties of evaluate: scores that cannot be computed *)

\* the candidates for which the scorer returned a float
Computed(outcomes) == {i \in 1..Len(outcomes) : outcomes[i] # ScorerRaised}

\* C19: a scorer that raises ValueError for a candidate k leaves that k in
\* the metrics with NaN (not 0) as this score, its inertia and its other
\* score recorded, and every candidate k is still fitted and scored;
\* _choose_k then picks among the candidates whose score was computed.
C19_UndefinedScoreKept ==
    (metrics # None /\ pc \in {"evaluated", "zoned"}) =>
        LET ks == EvaluateKValues(Len(payload.cells), NoArg, NoArg)
            sil == Computed([i \in 1..Len(scored) |-> scored[i].sil])
            db == Computed([i \in 1..Len(scored) |-> scored[i].db])
        IN  /\ metrics.k_values = ks
            /\ Len(scored) = Len(ks)
            /\ Len(metrics.inertia) = Len(ks)
            /\ Len(metrics.silhouette) = Len(ks)
            /\ Len(metrics.davies_bouldin) = Len(ks)
            /\ \A i \in 1..Len(ks) :
                  /\ \E f \in fits : f.key.k = ks[i]
                  /\ metrics.inertia[i].kind = "num"
                  /\ metrics.silhouette[i] =
                        IF i \in sil THEN scored[i].sil ELSE NaN
                  /\ metrics.davies_bouldin[i] =
                        IF i \in db THEN scored[i].db ELSE NaN
            /\ (pc = "zoned" /\ k # 0) =>
                  IF sil # {}
                  THEN \E i \in sil :
                          /\ \A j \in sil : scored[j].sil.val <= scored[i].sil.val
                          /\ k = ks[i]
                  ELSE IF db # {}
                  THEN \E i \in db :
                          /\ \A j \in db : scored[j].db.val >= scored[i].db.val
                          /\ k = ks[i]
                  ELSE k = HeuristicTable(Len(payload.cells))

\* the silhouette scorer raised for the first candidate only, the
\* Davies-Bouldin scorer for the second only; the second candidate is chosen
C19_Witness ==
    /\ pc = "zoned"
    /\ metrics # None
    /\ Len(metrics.k_values) = 2
    /\ scored[1].sil = ScorerRaised
    /\ scored[1].db # ScorerRaised
    /\ scored[2].sil # ScorerRaised
    /\ scored[2].db = ScorerRaised
    /\ metrics.silhouette[1] = NaN
    /\ metrics.davies_bouldin[2] = NaN
    /\ k = metrics.k_values[2]

-----------------------------------------------------------------------------
(* Properties of the bounding boxes *)

\* C20: every BoundingBox has south < north and west < east: the box of the
\* request once the pipeline has accepted it, and the bounds of every zone.
C20_BoxesStrict ==
    /\ (bbox # None /\ pc \notin {"extract", "raised"}) => ~InvalidBox(bbox)
    /\ \A z \in 1..Len(zones) : ~InvalidBox(zones[z].bounds)

-----------------------------------------------------------------------------
(* Properties of concurrent invocations *)

\* C21: under any interleaving of run_pipeline invocations, what an
\* invocation returned depends on its own inputs alone: its cells are those
\* of its own box, and the files named in its artifact hold the carroyage of
\* its own box and the map built from it.
C21_InvocationsIsolated ==
    \A i \in 1..Len(invs) :
        invs[i].pc = "done" =>
            /\ invs[i].payload = SharedPayload(invs[i].bbox)
            /\ files[invs[i].artifact.inhabitants_file] = SharedPayload(invs[i].bbox)
            /\ files[invs[i].artifact.map_file] =
                  SharedMap(invs[i].bbox, invs[i].category)

-----------------------------------------------------------------------------
(* Properties of the chat history *)

\* the positions in session s of the user messages of request r
TurnsOf(r, s) ==
    {j \in 1..Len(collection[s].messages) :
        /\ collection[s].messages[j].role = "user"
        /\ collection[s].messages[j].content = r}

\* the requests whose record_turn has run
TurnRecorded(r) == reqs[r].pc \in {"needs_title", "update_title", "done"}

\* C28: every chat request past the guards records exactly one turn, a user
\* message followed by an assistant message pushed together, in the session
\* whose id its response carries, whether the agent succeeded or raised; so
\* every session's messages have even length and alternate user, assistant.
C28_OneTurnPerRequest ==
    /\ \A s \in 1..Len(collection) :
          LET m == collection[s].messages
          IN  /\ Len(m) % 2 = 0
              /\ \A j \in 1..Len(m) :
                    /\ m[j].role = (IF j % 2 = 1 THEN "user" ELSE "assistant")
                    /\ j % 2 = 1 => m[j + 1].content = m[j].content
    /\ \A r \in 1..Len(reqs) :
          \A s \in 1..Len(collection) :
              Cardinality(TurnsOf(r, s)) =
                  (IF TurnRecorded(r) /\ s = reqs[r].session_id THEN 1 ELSE 0)
    /\ \A r \in 1..Len(reqs) :
          reqs[r].pc = "done" => reqs[r].response = [session_id |-> reqs[r].session_id]

\* C28 witness: a session holds the turns of two answered requests, one
\* whose agent raised and one whose agent returned
C28_Witness ==
    \E r1, r2 \in 1..Len(reqs) :
        /\ reqs[r1].pc = "done" /\ reqs[r1].raised
        /\ reqs[r2].pc = "done" /\ ~reqs[r2].raised
        /\ reqs[r1].response = reqs[r2].response
        /\ Len(collection[reqs[r1].session_id].messages) = 4

\* C29: once has_title is true for a session, no step of any request
\* changes its title.
C29_TitleSetOnce ==
    [][\A s \in 1..Len(collection) :
          collection[s].has_title => collection'[s].title = collection[s].title]_vars

-----------------------------------------------------------------------------
(* Properties of a conversation turn *)

\* the turn has run, its fetch returned at least one place, and no analysis
\* was wanted
FetchedWithoutAnalysis ==
    /\ turn # None
    /\ turn.pc = "done"
    /\ NeedsFetch(PlannedActions(turn.intent, turn.plan))
    /\ ~turn.fetch.raises
    /\ turn.fetch.payload.places # <<>>
    /\ ~WantsAnalysis(turn.intent, PlannedActions(turn.intent, turn.plan))

\* C30: when the fetch of a turn succeeded with at least one place and no
\* analysis is wanted, run returns an outcome carrying the fetch payload
\* and a map_file from build_points_map, not the error outcome.
C30_PointsMapReturned ==
    FetchedWithoutAnalysis =>
        /\ turn.outcome.answer # "error"
        /\ turn.outcome.fetch = turn.fetch.payload
        /\ turn.outcome.map_file # None

-----------------------------------------------------------------------------
(* Properties of repeated runs *)

\* C17: _build_zones run a second time on the same cells, items and metrics
\* returns the same zone list (order, ids, centroids, populations, bounds,
\* existing_commerces) from the same k and labels; every fit at the chosen k,
\* the candidate's in evaluate and the final one, is seeded 42 and weighted
\* by population, and gave the labels the zones are built from.
C17_ZonesDeterministic ==
    /\ (run = 2 /\ pc = "zoned") =>
          /\ zones = first_run.zones
          /\ k = first_run.k
          /\ labels = first_run.labels
          /\ predicted = first_run.predicted
    /\ (pc = "zoned" /\ fitted) =>
          /\ \E f \in fits : f.key.k = k
          /\ \A f \in fits :
                f.key.k = k =>
                    /\ f.key = FitKey(k, EvaluateSeed, TRUE)
                    /\ f.labels = labels

\* the second call has built three zones from the second candidate of evaluate
C17_Witness ==
    /\ run = 2
    /\ pc = "zoned"
    /\ fitted
    /\ metrics # None
    /\ metrics.k_values = <<2, 3>>
    /\ k = 3
    /\ Len(zones) = 3
    /\ zones = first_run.zones

\* C18: generate run a second time with the same CSV, box and output path
\* returns the same cells, count_cells and total_population as the first run
\* and leaves the output file with the same content; it does not raise.
C18_GenerateIdempotent ==
    run = 2 =>
        /\ first_run # None
        /\ pc # "raised"
        /\ pc \in {"generate", "chunks"} => output_file = first_run.file
        /\ pc = "generated" =>
              /\ payload.cells = first_run.payload.cells
              /\ payload.count_cells = first_run.payload.count_cells
              /\ payload.total_population = first_run.payload.total_population
              /\ output_file = first_run.file

\* the second run has returned two cells, read in two chunks
C18_Witness ==
    /\ run = 2
    /\ pc = "generated"
    /\ Len(rows) > ChunkSize
    /\ Len(payload.cells) = 2
    /\ output_file.count_cells = 2

====
